---------------------------- MODULE Spec2Model ----------------------------
(***************************************************************************)
(* TanTax: the tax engine of src/services/taxEngine.ts, the activity-code  *)
(* classification of src/services/cnaeMapper.ts and the simulator's        *)
(* weighted aggregation of src/App.tsx.                                    *)
(*                                                                         *)
(* The file holds two declarations of calculateTaxEngine: one at lines     *)
(* 73-200 (payroll ratio with the FGTS uplift and pro-labore, payroll      *)
(* charges in the result) and one at lines 266-363 (six parameters).  Both *)
(* are modelled; the variable decl records which declaration a call is     *)
(* bound to.                                                               *)
(*                                                                         *)
(* JavaScript numbers are modelled as exact rationals [n, d] in lowest     *)
(* terms with d > 0; the non-finite values of a division by zero are the   *)
(* records with d = 0 (n = 0 is NaN, n = 1 is +Infinity, n = -1 is         *)
(* -Infinity).  Rounding of IEEE-754 doubles is not modelled.              *)
(***************************************************************************)
EXTENDS Integers, Sequences, FiniteSets, TLC

(***************************************************************************)
(* Bounds of the input space.                                              *)
(***************************************************************************)
\* monthlyBilling ranges over 0 .. MaxBillingUnits steps of 62 500
MaxBillingUnits == 4
\* monthlyPayroll ranges over 0 .. MaxPayrollUnits steps of 14 000
MaxPayrollUnits == 2

\* the longest activity code classified
MaxCodeLen == 3

\* the most activity lines the simulator holds
MaxLines == 2

\* the longest legal-entity-type string checked
MaxNaturezaLen == 5

\* the rates are computed for rbt12 from 0 to MaxRateSteps steps of 240 000
MaxRateSteps == 25

\* the most secondary activity codes in an answer of the registry
MaxSecondaries == 1

MaxLookups == 2

(***************************************************************************)
(* JavaScript number arithmetic.                                           *)
(***************************************************************************)
Abs(x) == IF x < 0 THEN -x ELSE x

Sign(x) == IF x < 0 THEN -1 ELSE IF x > 0 THEN 1 ELSE 0

RECURSIVE GCD(_, _)
GCD(a, b) == IF b = 0 THEN a ELSE GCD(b, a % b)

\* the number n/d in lowest terms; d = 0 gives NaN or a signed infinity
Num(n, d) ==
    IF d = 0 THEN [n |-> Sign(n), d |-> 0]
    ELSE IF n = 0 THEN [n |-> 0, d |-> 1]
    ELSE LET g == GCD(Abs(n), Abs(d))
             s == Sign(d)
         IN  [n |-> (s * n) \div g, d |-> (s * d) \div g]

Number(k) == [n |-> k, d |-> 1]

NaN == [n |-> 0, d |-> 0]

isFinite(x) == x.d # 0

isNaN(x) == x.d = 0 /\ x.n = 0

\* a * b
Mul(a, b) ==
    IF a.d = 0 \/ b.d = 0 THEN Num(Sign(a.n) * Sign(b.n), 0)
    ELSE IF a.n = 0 \/ b.n = 0 THEN Number(0)
    ELSE LET g1 == GCD(Abs(a.n), b.d)
             g2 == GCD(Abs(b.n), a.d)
         IN  Num((a.n \div g1) * (b.n \div g2), (a.d \div g2) * (b.d \div g1))

\* a + b
Add(a, b) ==
    IF a.d = 0 /\ b.d = 0 THEN (IF a.n = b.n THEN a ELSE NaN)
    ELSE IF a.d = 0 THEN a
    ELSE IF b.d = 0 THEN b
    ELSE LET g == GCD(a.d, b.d)
         IN  Num(a.n * (b.d \div g) + b.n * (a.d \div g), (a.d \div g) * b.d)

Neg(a) == [n |-> -a.n, d |-> a.d]

\* a - b
Sub(a, b) == Add(a, Neg(b))

\* a / b: x / 0 is NaN for x = 0 and a signed infinity otherwise
Div(a, b) ==
    IF a.d = 0 /\ b.d = 0 THEN NaN
    ELSE IF a.d = 0 THEN Num(a.n * (IF b.n < 0 THEN -1 ELSE 1), 0)
    ELSE IF b.d = 0 THEN (IF isNaN(b) THEN NaN ELSE Number(0))
    ELSE IF b.n = 0 THEN Num(a.n, 0)
    ELSE Mul(a, Num(b.d, b.n))

\* a < b; every comparison with NaN is false
Lt(a, b) ==
    IF isNaN(a) \/ isNaN(b) THEN FALSE
    ELSE IF a.d = 0 \/ b.d = 0
         THEN (IF a.d = 0 /\ b.d = 0 THEN a.n < b.n
               ELSE IF a.d = 0 THEN a.n < 0 ELSE b.n > 0)
    ELSE Sign(Sub(a, b).n) < 0

Gt(a, b) == Lt(b, a)

\* a <= b
Le(a, b) == ~isNaN(a) /\ ~isNaN(b) /\ ~Lt(b, a)

Ge(a, b) == Le(b, a)

\* Math.max(a, b) of two numbers that are not NaN
MathMax(a, b) == IF Lt(a, b) THEN b ELSE a

(***************************************************************************)
(* The bracket tables (Faixas Simples Nacional).                           *)
(***************************************************************************)
Row(limite, aliquotaMilesimos, deduzir) ==
    [limite |-> Number(limite), aliquota |-> Num(aliquotaMilesimos, 1000),
     deduzir |-> Number(deduzir)]

\* mutant: the deductions of the third and fourth rows exchanged
ANEXO_I_SwappedDeductions ==
    << Row(180000, 40, 0),
       Row(360000, 73, 5940),
       Row(720000, 95, 22500),
       Row(1800000, 107, 13860),
       Row(3600000, 143, 87300),
       Row(4800000, 190, 378000) >>

ANEXO_I ==
    << Row(180000, 40, 0),
       Row(360000, 73, 5940),
       Row(720000, 95, 13860),
       Row(1800000, 107, 22500),
       Row(3600000, 143, 87300),
       Row(4800000, 190, 378000) >>

\* mutant: a digit of the fifth deduction dropped
ANEXO_III_DroppedDigit ==
    << Row(180000, 60, 0),
       Row(360000, 112, 9360),
       Row(720000, 135, 17640),
       Row(1800000, 160, 35640),
       Row(3600000, 210, 12564),
       Row(4800000, 330, 648000) >>

ANEXO_III ==
    << Row(180000, 60, 0),
       Row(360000, 112, 9360),
       Row(720000, 135, 17640),
       Row(1800000, 160, 35640),
       Row(3600000, 210, 125640),
       Row(4800000, 330, 648000) >>

ANEXO_V ==
    << Row(180000, 155, 0),
       Row(360000, 180, 4500),
       Row(720000, 195, 9900),
       Row(1800000, 205, 17100),
       Row(3600000, 230, 62100),
       Row(4800000, 305, 540000) >>

SIMPLES_TABLE == [ANEXO_I |-> ANEXO_I, ANEXO_III |-> ANEXO_III, ANEXO_V |-> ANEXO_V]

Activities == {"comercio", "industria", "servico_geral", "servico_intellectual", "hospitalar"}

undefined == [undefined |-> TRUE]


(***************************************************************************)
(* calculateTaxEngine, step by step.  Steps 2 to 4 and the recommendation  *)
(* are the same text in both declarations (lines 97-145 and 284-332).      *)
(***************************************************************************)

\* mutant: the ratio without its rbt12 > 0 guard
fatorR266_Unguarded(rbt12, monthlyPayroll) ==
    Div(Mul(monthlyPayroll, Number(12)), rbt12)

\* 1. Logica Fator R (declaration of line 266)
fatorR266(rbt12, monthlyPayroll) ==
    IF Gt(rbt12, Number(0))
    THEN Div(Mul(monthlyPayroll, Number(12)), rbt12)
    ELSE Number(0)

simplesAnexo266(activity, fatorR) ==
    IF activity = "servico_intellectual"
    THEN (IF Ge(fatorR, Num(28, 100)) THEN "III" ELSE "V")
    ELSE IF activity = "comercio" THEN "I"
    ELSE "III"

\* 1. Logica Fator R (declaration of line 73)
monthlySalaries73(monthlyPayroll, monthlyProLabore) ==
    MathMax(Number(0), Sub(monthlyPayroll, monthlyProLabore))

fatorR73(rbt12, monthlyPayroll, monthlyProLabore) ==
    LET monthlySalaries == monthlySalaries73(monthlyPayroll, monthlyProLabore)
        massaSalarialComFGTS ==
            Add(Mul(monthlySalaries, Num(108, 100)), monthlyProLabore)
    IN  IF Gt(rbt12, Number(0))
        THEN Div(Mul(massaSalarialComFGTS, Number(12)), rbt12)
        ELSE Number(0)

simplesAnexo73(activity, fatorR) ==
    IF activity = "servico_intellectual" \/ activity = "hospitalar"
    THEN (IF Ge(fatorR, Num(28, 100)) THEN "III" ELSE "V")
    ELSE IF activity = "comercio" THEN "I"
    ELSE "III"

\* 2. Calculo Aliquota Efetiva Simples
tableOf(simplesAnexo) ==
    IF simplesAnexo = "I" THEN SIMPLES_TABLE.ANEXO_I
    ELSE IF simplesAnexo = "III" THEN SIMPLES_TABLE.ANEXO_III
    ELSE SIMPLES_TABLE.ANEXO_V

\* mutant: table.find(b => rbt12 < b.limite)
find_StrictCeiling(table, rbt12) ==
    LET hits == {i \in 1..Len(table) : Lt(rbt12, table[i].limite)}
    IN  IF hits = {} THEN undefined
        ELSE table[CHOOSE i \in hits : \A j \in hits : i <= j]

\* table.find(b => rbt12 <= b.limite)
find(table, rbt12) ==
    LET hits == {i \in 1..Len(table) : Le(rbt12, table[i].limite)}
    IN  IF hits = {} THEN undefined
        ELSE table[CHOOSE i \in hits : \A j \in hits : i <= j]

\* table.find(...) || table[table.length - 1]
bracketOf(table, rbt12) ==
    LET found == find(table, rbt12)
    IN  IF found = undefined THEN table[Len(table)] ELSE found

\* mutant: the division by rbt12 without its guard
aliquotaEfetivaOf_Unguarded(rbt12, bracket) ==
    Div(Sub(Mul(rbt12, bracket.aliquota), bracket.deduzir), rbt12)

\* mutant: the deduction added instead of subtracted
aliquotaEfetivaOf_DeductionAdded(rbt12, bracket) ==
    IF Gt(rbt12, Number(0))
    THEN Div(Add(Mul(rbt12, bracket.aliquota), bracket.deduzir), rbt12)
    ELSE bracket.aliquota

aliquotaEfetivaOf(rbt12, bracket) ==
    IF Gt(rbt12, Number(0))
    THEN Div(Sub(Mul(rbt12, bracket.aliquota), bracket.deduzir), rbt12)
    ELSE bracket.aliquota

\* 3. Lucro Presumido: the presumption rates before LC 224/2025
basePresuncao(activity) ==
    IF activity = "comercio" \/ activity = "industria"
    THEN [presirpj |-> Num(8, 100), prescsll |-> Num(12, 100)]
    ELSE IF activity = "hospitalar"
    THEN [presirpj |-> Num(8, 100), prescsll |-> Num(12, 100)]
    ELSE [presirpj |-> Num(32, 100), prescsll |-> Num(32, 100)]

\* mutant: rbt12 >= 5000000
isAbove5MOf_Inclusive(rbt12) == Ge(rbt12, Number(5000000))

isAbove5MOf(rbt12) == Gt(rbt12, Number(5000000))

\* LC 224/2025 - 2026 Rule: +10% on presumption if billing > 5M
presuncaoOf(activity, rbt12) ==
    LET base == basePresuncao(activity)
    IN  IF isAbove5MOf(rbt12)
        THEN [presirpj |-> Mul(base.presirpj, Num(11, 10)),
              prescsll |-> Mul(base.prescsll, Num(11, 10))]
        ELSE base

\* mutant: the additional 10% forgotten
irpjOf_NoAdditional(baseIRPJ) == Mul(baseIRPJ, Num(15, 100))

\* mutant: the additional 10% on the whole base once it exceeds 20000
irpjOf_WholeBase(baseIRPJ) ==
    Add(Mul(baseIRPJ, Num(15, 100)),
        IF Gt(baseIRPJ, Number(20000))
        THEN Mul(baseIRPJ, Num(10, 100))
        ELSE Number(0))

irpjOf(baseIRPJ) ==
    Add(Mul(baseIRPJ, Num(15, 100)),
        IF Gt(baseIRPJ, Number(20000))
        THEN Mul(Sub(baseIRPJ, Number(20000)), Num(10, 100))
        ELSE Number(0))

csllOf(baseCSLL) == Mul(baseCSLL, Num(9, 100))

pisOf(monthlyBilling) == Mul(monthlyBilling, Num(65, 10000))

cofinsOf(monthlyBilling) == Mul(monthlyBilling, Num(3, 100))

\* mutant: the municipal service tax charged whatever the activity
issqnOf_AllActivities(activity, monthlyBilling, issRate) ==
    Mul(monthlyBilling, issRate)

issqnOf(activity, monthlyBilling, issRate) ==
    IF activity = "servico_geral" \/ activity = "servico_intellectual"
       \/ activity = "hospitalar"
    THEN Mul(monthlyBilling, issRate)
    ELSE Number(0)

\* mutant: the total without the municipal service tax
lpTotalOf_NoIssqn(irpj, csll, pis, cofins, issqn) ==
    Add(Add(Add(irpj, csll), pis), cofins)

lpTotalOf(irpj, csll, pis, cofins, issqn) ==
    Add(Add(Add(Add(irpj, csll), pis), cofins), issqn)

\* 4. Reforma Tributaria (Simulacao 2026 - 1%)
cbsIbsOf(monthlyBilling) == Mul(monthlyBilling, Num(1, 100))

\* mutant: lpTotal <= simplesTotal, a tie names the presumed-profit regime
sugestaoOf_TieToPresumido(lpTotal, simplesTotal, isB2B) ==
    LET sugestao == IF Le(lpTotal, simplesTotal) THEN "Lucro Presumido"
                    ELSE "Simples Nacional"
    IN  IF isB2B /\ sugestao = "Simples Nacional"
        THEN sugestao \o " (Considere Regime Hibrido para B2B)"
        ELSE sugestao

\* Sugestao (the accent of "Hibrido" is dropped)
sugestaoOf(lpTotal, simplesTotal, isB2B) ==
    LET sugestao == IF Lt(lpTotal, simplesTotal) THEN "Lucro Presumido"
                    ELSE "Simples Nacional"
    IN  IF isB2B /\ sugestao = "Simples Nacional"
        THEN sugestao \o " (Considere Regime Hibrido para B2B)"
        ELSE sugestao

\* mutant: rbt12 < 4800000
simplesElegivelOf_Strict(rbt12) == Lt(rbt12, Number(4800000))

simplesElegivelOf(rbt12) == Le(rbt12, Number(4800000))

lucroPresumidoElegivelOf(rbt12) == Le(rbt12, Number(78000000))

\* (lpTotal / monthlyBilling) * 100
lpAliquotaEfetivaOf(lpTotal, monthlyBilling) ==
    Mul(Div(lpTotal, monthlyBilling), Number(100))

\* the part of the returned object that both declarations build alike
commonResults(rbt12, monthlyBilling, activity, isB2B, issRate, fatorR, simplesAnexo) ==
    LET table == tableOf(simplesAnexo)
        bracket == bracketOf(table, rbt12)
        aliquotaEfetiva == aliquotaEfetivaOf(rbt12, bracket)
        simplesTotal == Mul(monthlyBilling, aliquotaEfetiva)
        pres == presuncaoOf(activity, rbt12)
        baseIRPJ == Mul(monthlyBilling, pres.presirpj)
        baseCSLL == Mul(monthlyBilling, pres.prescsll)
        irpj == irpjOf(baseIRPJ)
        csll == csllOf(baseCSLL)
        pis == pisOf(monthlyBilling)
        cofins == cofinsOf(monthlyBilling)
        issqn == issqnOf(activity, monthlyBilling, issRate)
        lpTotal == lpTotalOf(irpj, csll, pis, cofins, issqn)
    IN  [simples |->
            [elegivel |-> simplesElegivelOf(rbt12),
             anexo |-> simplesAnexo,
             aliquotaEfetiva |-> Mul(aliquotaEfetiva, Number(100)),
             aliquotaNominal |-> Mul(bracket.aliquota, Number(100)),
             parcelaDeduzir |-> bracket.deduzir,
             dasTotal |-> simplesTotal,
             fatorR |-> Mul(fatorR, Number(100))],
         lucroPresumido |->
            [elegivel |-> lucroPresumidoElegivelOf(rbt12),
             irpj |-> irpj,
             csll |-> csll,
             pis |-> pis,
             cofins |-> cofins,
             issqn |-> issqn,
             total |-> lpTotal,
             aliquotaEfetiva |-> lpAliquotaEfetivaOf(lpTotal, monthlyBilling),
             presuncaoirpj |-> Mul(pres.presirpj, Number(100)),
             isLC224Applied |-> isAbove5MOf(rbt12)],
         reforma2026 |->
            [cbs_ibs |-> cbsIbsOf(monthlyBilling),
             percentualReducao |-> Number(0),
             fase |-> "Teste (1%)"],
         sugestao |-> sugestaoOf(lpTotal, simplesTotal, isB2B)]

\* mutant: a B2B client charged no municipal service tax
calculateTaxEngine266_B2BExempt(rbt12, monthlyBilling, monthlyPayroll, activity, isB2B, issRate) ==
    LET fatorR == fatorR266(rbt12, monthlyPayroll)
        simplesAnexo == simplesAnexo266(activity, fatorR)
    IN  commonResults(rbt12, monthlyBilling, activity, isB2B,
                      IF isB2B THEN Number(0) ELSE issRate, fatorR, simplesAnexo)

\* the declaration of line 266
calculateTaxEngine266(rbt12, monthlyBilling, monthlyPayroll, activity, isB2B, issRate) ==
    LET fatorR == fatorR266(rbt12, monthlyPayroll)
        simplesAnexo == simplesAnexo266(activity, fatorR)
    IN  commonResults(rbt12, monthlyBilling, activity, isB2B, issRate, fatorR, simplesAnexo)

\* results.folha of the declaration of line 73, with the final adjustment
folha73(simplesAnexo, lpTotal, monthlyPayroll, monthlySalaries, ratRate, terceirosRate) ==
    LET isLP == Gt(lpTotal, Number(0))
        isAnexoIV == simplesAnexo = "IV"
        inssPatronal == IF isAnexoIV \/ isLP THEN Mul(monthlyPayroll, Num(20, 100))
                        ELSE Number(0)
        rat == IF isAnexoIV \/ isLP THEN Mul(monthlySalaries, ratRate) ELSE Number(0)
        terceiros == IF isLP THEN Mul(monthlySalaries, terceirosRate) ELSE Number(0)
        totalEncargos == IF isLP THEN Add(Add(inssPatronal, rat), terceiros)
                         ELSE IF isAnexoIV THEN Add(inssPatronal, rat)
                         ELSE Number(0)
    IN  [inssPatronal |-> inssPatronal,
         rat |-> rat,
         terceiros |-> terceiros,
         totalEncargos |-> totalEncargos,
         percentualSobreFolha |->
            IF Gt(monthlyPayroll, Number(0))
            THEN Mul(Div(totalEncargos, monthlyPayroll), Number(100))
            ELSE Number(0),
         isSimplesSubstituido |-> simplesAnexo # "IV"]

\* the declaration of line 73
calculateTaxEngine73(rbt12, monthlyBilling, monthlyPayroll, activity, isB2B, issRate, ratRate, terceirosRate, monthlyProLabore) ==
    LET fatorR == fatorR73(rbt12, monthlyPayroll, monthlyProLabore)
        simplesAnexo == simplesAnexo73(activity, fatorR)
        common == commonResults(rbt12, monthlyBilling, activity, isB2B, issRate,
                                fatorR, simplesAnexo)
    IN  [simples |-> common.simples,
         lucroPresumido |-> common.lucroPresumido,
         reforma2026 |-> common.reforma2026,
         folha |-> folha73(simplesAnexo, common.lucroPresumido.total, monthlyPayroll,
                           monthlySalaries73(monthlyPayroll, monthlyProLabore),
                           ratRate, terceirosRate),
         sugestao |-> common.sugestao]


(***************************************************************************)
(* src/services/cnaeMapper.ts.  A string is the sequence of its            *)
(* characters.                                                             *)
(***************************************************************************)
Min(a, b) == IF a <= b THEN a ELSE b

\* str.substring(start, end) for 0 <= start <= end
substring(str, start, end) == SubSeq(str, start + 1, Min(end, Len(str)))

\* Comercio
CNAE_KEYS_comercio ==
    {
     <<"4", "5">>, <<"4", "6">>, <<"4", "7">> }

\* Industria
CNAE_KEYS_industria ==
    {
     <<"1", "0">>, <<"1", "1">>, <<"1", "2">>, <<"1", "3">>, <<"1", "4">>,
     <<"1", "5">>, <<"1", "6">>, <<"1", "7">>, <<"1", "8">>, <<"1", "9">>,
     <<"2", "0">>, <<"2", "1">>, <<"2", "2">>, <<"2", "3">>, <<"2", "4">>,
     <<"2", "5">>, <<"2", "6">>, <<"2", "7">>, <<"2", "8">>, <<"2", "9">>,
     <<"3", "0">>, <<"3", "1">>, <<"3", "2">>, <<"3", "3">> }

\* Servicos Gerais
CNAE_KEYS_servico_geral ==
    {
     <<"3", "5">>, <<"3", "6">>, <<"3", "7">>, <<"3", "8">>, <<"3", "9">>,
     <<"4", "1">>, <<"4", "2">>, <<"4", "3">>, <<"4", "9">>, <<"5", "0">>,
     <<"5", "1">>, <<"5", "2">>, <<"5", "3">>, <<"5", "5">>, <<"5", "6">>,
     <<"7", "7">>, <<"7", "8">>, <<"7", "9">>, <<"8", "0">>, <<"8", "1">>,
     <<"8", "2">>, <<"9", "0">>, <<"9", "1">>, <<"9", "2">>, <<"9", "3">>,
     <<"9", "4">>, <<"9", "5">>, <<"9", "6">> }

\* Servicos Intelectuais
CNAE_KEYS_servico_intellectual ==
    {
     <<"6", "2">>, <<"6", "3">>, <<"6", "9">>, <<"7", "0">>, <<"7", "1">>,
     <<"7", "2">>, <<"7", "3">>, <<"7", "4">>, <<"7", "5">>, <<"8", "5">> }

\* Hospitalar
CNAE_KEYS_hospitalar ==
    {
     <<"8", "6">> }

CNAE_KEYS ==
    CNAE_KEYS_comercio \cup CNAE_KEYS_industria \cup CNAE_KEYS_servico_geral
    \cup CNAE_KEYS_servico_intellectual \cup CNAE_KEYS_hospitalar

CNAE_MAPPING ==
    [key \in CNAE_KEYS |->
        IF key \in CNAE_KEYS_comercio THEN "comercio"
        ELSE IF key \in CNAE_KEYS_industria THEN "industria"
        ELSE IF key \in CNAE_KEYS_servico_geral THEN "servico_geral"
        ELSE IF key \in CNAE_KEYS_servico_intellectual THEN "servico_intellectual"
        ELSE "hospitalar"]

\* mutant: an unknown prefix defaults to servico_geral
mapCnaeToActivity_DefaultGeral(cnaeCode) ==
    LET prefix == substring(cnaeCode, 0, 2)
    IN  IF prefix \in DOMAIN CNAE_MAPPING THEN CNAE_MAPPING[prefix]
        ELSE "servico_geral"

\* CNAE_MAPPING[prefix] is undefined, and so falsy, for a key the object does
\* not have
mapCnaeToActivity(cnaeCode) ==
    LET prefix == substring(cnaeCode, 0, 2)
    IN  IF prefix \in DOMAIN CNAE_MAPPING THEN CNAE_MAPPING[prefix]
        ELSE "servico_intellectual"

\* str.includes(searchString)
includes(str, searchString) ==
    \E start \in 0..(Len(str) - Len(searchString)) :
        SubSeq(str, start + 1, start + Len(searchString)) = searchString

\* mutant: only the first of the two codes is flagged
checkSimplesEligibility_Only2011(natureza) ==
    IF includes(natureza, <<"2", "0", "1", "1">>)
    THEN [eligible |-> FALSE, reason |-> "Natureza Juridica (S/A) impediva para Simples Nacional"]
    ELSE [eligible |-> TRUE]

\* a result without the optional field reason has no such field
checkSimplesEligibility(natureza) ==
    IF includes(natureza, <<"2", "0", "1", "1">>) \/ includes(natureza, <<"2", "0", "4", "6">>)
    THEN [eligible |-> FALSE, reason |-> "Natureza Juridica (S/A) impediva para Simples Nacional"]
    ELSE [eligible |-> TRUE]

(***************************************************************************)
(* The state: one caller of the engine, the classification of one activity *)
(* code, and the simulator of src/App.tsx.                                 *)
(***************************************************************************)
VARIABLES
    decl,         \* the line of the declaration the call is bound to: 73 or 266
    args,         \* the arguments of the current call
    results,      \* what the current call returned, or undefined before it
    prevArgs,     \* the arguments of the call before, or undefined
    prevResults,  \* what the call before returned, or undefined
    pc,           \* "ready" before the first call, "returned" after a call,
                  \* "idle" where no caller of this kind runs
    split,        \* the results of the calls with 60% and 40% of monthlyBilling,
                  \* or undefined
    cnaeCode,     \* the activity code to classify
    mapped,       \* [activity |-> what mapCnaeToActivity returned for it], or
                  \* undefined
    sim,          \* the simulator's inputs: the sim* state of App and the totals
    simResults,        \* the calls of the engine in the memo's last computation:
                       \* the weight and the engine result of each
    taxSimulation,     \* the memoised value of taxSimulation, or undefined
    prevTaxSimulation, \* its value before the lines were reordered, or undefined
    naturezaJuridica,  \* the legal-entity-type string handed to
                       \* checkSimplesEligibility
    eligibility,       \* what checkSimplesEligibility returned, or undefined
    rateArgs,          \* a schedule, two values a <= b of rbt12 and a
                       \* monthlyBilling, or undefined
    rates,             \* step 2 of the engine computed for them, or undefined
    brasilApiData,     \* the registry's answer held by App, or null
    mappedActivities,  \* [activities |-> the lines the effect on brasilApiData
                       \* handed to setSimActivities], or undefined
    rendered,          \* the simulation inputs of the last render, or undefined
    freshSimulation,   \* the aggregation computed anew at the last render
    billingFile,       \* the billing document selected, or null
    payrollFile,       \* the payroll document selected, or null
    isProcessing,      \* App's flag of a running processDocuments
    error,             \* null or [message |-> the message shown]
    companyInfo,       \* [name, cnpj] of the company extracted
    billingRecords,    \* the billing records extracted
    payrollRecords,    \* the payroll records extracted
    extraction,        \* the two promises processDocuments awaits, or null
    docsBefore,        \* companyInfo and the records when processDocuments began
    docsOutcome,       \* how the last processDocuments ended, "none" before
    cnpjQuery,         \* the text of the search box
    isSearchingCnpj,   \* App's flag of a running lookup
    lookups            \* the lookups started, in order, each with its state

engineVars == <<decl, args, results, prevArgs, prevResults, pc, split>>

cnaeVars == <<cnaeCode, mapped>>

simVars == <<sim, simResults, taxSimulation, prevTaxSimulation>>

eligibilityVars == <<naturezaJuridica, eligibility>>

\* the rest of the application's state
rateVars == <<rateArgs, rates>>

registryVars == <<brasilApiData, mappedActivities>>

memoVars == <<rendered, freshSimulation>>

docsVars ==
    <<billingFile, payrollFile, isProcessing, companyInfo, billingRecords,
      payrollRecords, extraction, docsBefore, docsOutcome>>

lookupVars == <<cnpjQuery, isSearchingCnpj, lookups>>

uiVars == <<memoVars, docsVars, lookupVars, error>>

appVars == <<eligibilityVars, rateVars, registryVars, uiVars>>

vars == <<engineVars, cnaeVars, simVars, appVars>>

Rbt12Values ==
    {0, 120000, 180000, 300000, 360000, 600000, 720000, 1200000, 1800000,
     2400000, 3600000, 4200000, 4320000, 4800000, 4900000, 5000000, 6000000,
     78000000, 80000000}

BillingValues == {k * 62500 : k \in 0..MaxBillingUnits}

\* 140 000 is a payroll that reaches the 0.28 ratio at revenues above 4 800 000
PayrollValues == {k * 14000 : k \in 0..MaxPayrollUnits} \cup {140000}

\* issRate in [0.02, 0.05]; 0.05 is the default of the parameter
IssRates == {Num(2, 100), Num(5, 100)}

ProLaboreValues == {0, 14000}

Declarations == {73, 266}

ArgsOf(d) ==
    [rbt12 : {Number(v) : v \in Rbt12Values},
     monthlyBilling : {Number(v) : v \in BillingValues},
     monthlyPayroll : {Number(v) : v \in PayrollValues},
     activity : Activities,
     isB2B : BOOLEAN,
     issRate : IssRates,
     ratRate : {Num(2, 100)},
     terceirosRate : {Num(58, 1000)},
     monthlyProLabore : {Number(v) : v \in (IF d = 73 THEN ProLaboreValues ELSE {0})}]

\* the call, bound to declaration d
calculateTaxEngine(d, a) ==
    IF d = 73
    THEN calculateTaxEngine73(a.rbt12, a.monthlyBilling, a.monthlyPayroll, a.activity,
                              a.isB2B, a.issRate, a.ratRate, a.terceirosRate,
                              a.monthlyProLabore)
    ELSE calculateTaxEngine266(a.rbt12, a.monthlyBilling, a.monthlyPayroll, a.activity,
                               a.isB2B, a.issRate)

\* no legal-entity type is being checked
eligibilityIdle ==
    /\ naturezaJuridica = <<>>
    /\ eligibility = undefined

\* no rate is being computed
rateIdle ==
    /\ rateArgs = undefined
    /\ rates = undefined

null == [null |-> TRUE]

\* no answer of the registry is held
registryIdle ==
    /\ brasilApiData = null
    /\ mappedActivities = undefined

\* nothing has rendered
memoIdle ==
    /\ rendered = undefined
    /\ freshSimulation = undefined

\* the state App gives its documents before any is selected
docsIdle ==
    /\ billingFile = null
    /\ payrollFile = null
    /\ isProcessing = FALSE
    /\ companyInfo = [name |-> "", cnpj |-> <<>>]
    /\ billingRecords = <<>>
    /\ payrollRecords = <<>>
    /\ extraction = null
    /\ docsBefore = undefined
    /\ docsOutcome = "none"

\* no lookup was started
lookupIdle ==
    /\ cnpjQuery = <<>>
    /\ isSearchingCnpj = FALSE
    /\ lookups = <<>>

uiIdle ==
    /\ memoIdle
    /\ docsIdle
    /\ lookupIdle
    /\ error = null

appIdle ==
    /\ eligibilityIdle
    /\ rateIdle
    /\ registryIdle
    /\ uiIdle

\* no code is being classified
cnaeIdle ==
    /\ cnaeCode = <<>>
    /\ mapped = undefined

\* the simulator is not mounted
simIdle ==
    /\ sim = undefined
    /\ simResults = undefined
    /\ taxSimulation = undefined
    /\ prevTaxSimulation = undefined

\* no direct caller of the engine
engineIdle ==
    /\ args = undefined
    /\ results = undefined
    /\ prevArgs = undefined
    /\ prevResults = undefined
    /\ pc = "idle"
    /\ split = undefined

Init ==
    /\ decl \in Declarations
    /\ args \in ArgsOf(decl)
    /\ results = undefined
    /\ prevArgs = undefined
    /\ prevResults = undefined
    /\ pc = "ready"
    /\ split = undefined
    /\ cnaeIdle
    /\ simIdle
    /\ appIdle

\* the caller calls the engine with the arguments it holds
Call ==
    /\ pc = "ready"
    /\ results' = calculateTaxEngine(decl, args)
    /\ pc' = "returned"
    /\ UNCHANGED <<decl, args, prevArgs, prevResults, split>>
    /\ UNCHANGED <<cnaeVars, simVars, appVars>>

\* the caller calls again with another issRate and the other arguments unchanged
CallWithIssRate ==
    /\ pc = "returned"
    /\ prevArgs = undefined
    /\ split = undefined
    /\ \E r \in IssRates :
          /\ r # args.issRate
          /\ args' = [args EXCEPT !.issRate = r]
    /\ prevArgs' = args
    /\ prevResults' = results
    /\ results' = calculateTaxEngine(decl, args')
    /\ UNCHANGED <<decl, pc, split>>
    /\ UNCHANGED <<cnaeVars, simVars, appVars>>

\* the caller calls again with isB2B toggled and the other arguments unchanged
CallWithIsB2B ==
    /\ pc = "returned"
    /\ prevArgs = undefined
    /\ split = undefined
    /\ args' = [args EXCEPT !.isB2B = ~args.isB2B]
    /\ prevArgs' = args
    /\ prevResults' = results
    /\ results' = calculateTaxEngine(decl, args')
    /\ UNCHANGED <<decl, pc, split>>
    /\ UNCHANGED <<cnaeVars, simVars, appVars>>

\* the caller splits monthlyBilling 60% / 40% over two lines of the same
\* activity and calls the engine once per line
CallSplit ==
    /\ pc = "returned"
    /\ prevArgs = undefined
    /\ split = undefined
    /\ \E lineArgs \in {[line60 |-> [args EXCEPT !.monthlyBilling =
                                             Mul(args.monthlyBilling, Num(60, 100))],
                            line40 |-> [args EXCEPT !.monthlyBilling =
                                             Mul(args.monthlyBilling, Num(40, 100))]]} :
          split' = [line \in DOMAIN lineArgs |-> calculateTaxEngine(decl, lineArgs[line])]
    /\ UNCHANGED <<decl, args, results, prevArgs, prevResults, pc>>
    /\ UNCHANGED <<cnaeVars, simVars, appVars>>

Next == Call \/ CallWithIssRate

Spec == Init /\ [][Next]_vars

\* the caller that toggles isB2B
NextB2B == Call \/ CallWithIsB2B

SpecB2B == Init /\ [][NextB2B]_vars

\* the caller that splits monthlyBilling over two lines
NextSplit == Call \/ CallSplit

SpecSplit == Init /\ [][NextSplit]_vars

(***************************************************************************)
(* The simulator of src/App.tsx: the memoised taxSimulation.               *)
(***************************************************************************)
\* a || b on numbers: 0 and NaN are falsy
OrElse(a, b) == IF isNaN(a) \/ a = Number(0) THEN b ELSE a

\* the arguments of a call of the simulator; the parameters it does not pass
\* take their defaults
simArgs(rbt12, monthlyBilling, monthlyPayroll, activity, isB2B, issRate) ==
    [rbt12 |-> rbt12,
     monthlyBilling |-> monthlyBilling,
     monthlyPayroll |-> monthlyPayroll,
     activity |-> activity,
     isB2B |-> isB2B,
     issRate |-> issRate,
     ratRate |-> Num(2, 100),
     terceirosRate |-> Num(58, 1000),
     monthlyProLabore |-> Number(0)]

rbt12Of(s) == OrElse(s.simRbt12, s.totalBilling)

mBillingOf(s) ==
    OrElse(OrElse(s.simMonthlyBilling, Div(s.totalBilling, Number(12))), Number(0))

mPayrollOf(s) ==
    OrElse(OrElse(s.simMonthlyPayroll, Div(s.totalPayroll, Number(12))), Number(0))

\* the Factor R of the analysis tab
accumulatedFactorR(s) ==
    IF Gt(s.totalBilling, Number(0))
    THEN Mul(Div(s.totalPayroll, s.totalBilling), Number(100))
    ELSE Number(0)

isActive(a) == Gt(a.percentage, Number(0))

activeActivities(s) ==
    IF Len(s.simActivities) > 0
    THEN SelectSeq(s.simActivities, isActive)
    ELSE <<[activity |-> s.simActivity, percentage |-> Number(100)]>>

\* the calls of the engine the memo makes: one per active line, each with its
\* weight, or the one call with the whole amounts when no line is active
engineCalls(s) ==
    LET active == activeActivities(s)
    IN  IF Len(active) = 0
        THEN <<[weight |-> Number(1),
                args |-> simArgs(rbt12Of(s), mBillingOf(s), mPayrollOf(s),
                                 s.simActivity, s.simIsB2B, Num(5, 100))]>>
        ELSE [i \in 1..Len(active) |->
                LET weight == Div(active[i].percentage, Number(100))
                IN  [weight |-> weight,
                     args |-> simArgs(rbt12Of(s), Mul(mBillingOf(s), weight),
                                      Mul(mPayrollOf(s), weight), active[i].activity,
                                      s.simIsB2B, s.simIssRate)]]

\* the results of the calls
lineResults(d, calls) ==
    [i \in DOMAIN calls |->
        [weight |-> calls[i].weight, res |-> calculateTaxEngine(d, calls[i].args)]]

\* initial plus the numbers of the sequence, added in order
RECURSIVE addAll(_, _)
addAll(initial, numbers) ==
    IF numbers = <<>> THEN initial
    ELSE addAll(Add(initial, Head(numbers)), Tail(numbers))

aggregatedSugestao(total, dasTotal, simIsB2B) ==
    IF Lt(total, dasTotal)
    THEN (IF simIsB2B THEN "Lucro Presumido (Considere Regime Hibrido)"
          ELSE "Lucro Presumido")
    ELSE "Simples Nacional"

blendedRate(amount, mBilling) ==
    IF Gt(mBilling, Number(0)) THEN Mul(Div(amount, mBilling), Number(100))
    ELSE Number(0)

\* the value the memo computes from the state s; lineRes holds the results of
\* its calls of the engine
taxSimulationOf(s, lineRes) ==
    LET mBilling == mBillingOf(s)
    IN  IF Len(activeActivities(s)) = 0
        THEN LET direct == lineRes[1].res
             IN  [simples |-> direct.simples,
                  lucroPresumido |-> direct.lucroPresumido,
                  reforma2026 |-> direct.reforma2026,
                  sugestao |-> direct.sugestao]
        ELSE LET lines == DOMAIN lineRes
                 firstRes == lineRes[1].res
                 dasTotal == addAll(Number(0),
                                [i \in lines |-> lineRes[i].res.simples.dasTotal])
                 irpj == addAll(Number(0),
                            [i \in lines |-> lineRes[i].res.lucroPresumido.irpj])
                 csll == addAll(Number(0),
                            [i \in lines |-> lineRes[i].res.lucroPresumido.csll])
                 pis == addAll(Number(0),
                           [i \in lines |-> lineRes[i].res.lucroPresumido.pis])
                 cofins == addAll(Number(0),
                              [i \in lines |-> lineRes[i].res.lucroPresumido.cofins])
                 \* issqn is not reset: the sum starts from the first line's
                 issqn == addAll(firstRes.lucroPresumido.issqn,
                             [i \in lines |-> lineRes[i].res.lucroPresumido.issqn])
                 total == addAll(Number(0),
                             [i \in lines |-> lineRes[i].res.lucroPresumido.total])
                 cbs_ibs == addAll(Number(0),
                               [i \in lines |-> lineRes[i].res.reforma2026.cbs_ibs])
             IN  [simples |->
                     [firstRes.simples EXCEPT
                         !.dasTotal = dasTotal,
                         !.aliquotaEfetiva = blendedRate(dasTotal, mBilling)],
                  lucroPresumido |->
                     [firstRes.lucroPresumido EXCEPT
                         !.irpj = irpj,
                         !.csll = csll,
                         !.pis = pis,
                         !.cofins = cofins,
                         !.issqn = issqn,
                         !.total = total,
                         !.aliquotaEfetiva = blendedRate(total, mBilling)],
                  reforma2026 |-> [firstRes.reforma2026 EXCEPT !.cbs_ibs = cbs_ibs],
                  sugestao |-> aggregatedSugestao(total, dasTotal, s.simIsB2B)]

SimActivityValues == {"servico_intellectual", "comercio"}

\* the percentage of a line is whatever number was typed: the lines need not
\* add up to 100
PercentageValues == {0, 50, 100}

Line == [activity : SimActivityValues, percentage : {Number(v) : v \in PercentageValues}]

Lines == UNION {[1..n -> Line] : n \in 0..MaxLines}

\* totalBilling and totalPayroll of the year's records; the payroll total
\* carries the 1.08 uplift
Totals == {<<0, 0>>, <<1200000, 362880>>}

AllSimStates ==
    {[simRbt12 |-> Number(r),
      simMonthlyBilling |-> Number(b),
      simMonthlyPayroll |-> Number(p),
      simActivity |-> act,
      simIsB2B |-> b2b,
      simIssRate |-> iss,
      simActivities |-> ls,
      totalBilling |-> Number(t[1]),
      totalPayroll |-> Number(t[2])] :
        r \in {0, 4800000}, b \in {0, 125000}, p \in {0, 28000},
        act \in SimActivityValues, b2b \in BOOLEAN, iss \in IssRates,
        ls \in Lines, t \in Totals}

\* simActivity is read only when no line is active: it varies only then
SimStates ==
    {s \in AllSimStates :
        (\E i \in DOMAIN s.simActivities : isActive(s.simActivities[i]))
            => s.simActivity = "servico_intellectual"}

InitSim ==
    /\ decl \in Declarations
    /\ engineIdle
    /\ cnaeIdle
    /\ appIdle
    /\ sim \in SimStates
    /\ simResults = undefined
    /\ taxSimulation = undefined
    /\ prevTaxSimulation = undefined

\* the component renders and the memo computes its value
Render ==
    /\ taxSimulation = undefined
    /\ \E lineRes \in {lineResults(decl, engineCalls(sim))} :
          /\ simResults' = lineRes
          /\ taxSimulation' = taxSimulationOf(sim, lineRes)
    /\ UNCHANGED <<engineVars, cnaeVars, appVars, sim, prevTaxSimulation>>

Reverse(seq) == [i \in 1..Len(seq) |-> seq[Len(seq) + 1 - i]]

\* the user enters the same lines in the opposite order; simActivities is a
\* dependency of the memo, which computes again
ReorderLines ==
    /\ taxSimulation # undefined
    /\ prevTaxSimulation = undefined
    /\ Reverse(sim.simActivities) # sim.simActivities
    /\ sim' = [sim EXCEPT !.simActivities = Reverse(sim.simActivities)]
    /\ prevTaxSimulation' = taxSimulation
    /\ \E lineRes \in {lineResults(decl, engineCalls(sim'))} :
          /\ simResults' = lineRes
          /\ taxSimulation' = taxSimulationOf(sim', lineRes)
    /\ UNCHANGED <<engineVars, cnaeVars, appVars>>

NextSim == Render \/ ReorderLines

SpecSim == InitSim /\ [][NextSim]_vars

(***************************************************************************)
(* The simulator's inputs, their setters, and the memo across renders.     *)
(***************************************************************************)
\* the dependency list of the memo: simIssRate is not in it
memoDeps(s) ==
    <<s.simRbt12, s.simMonthlyBilling, s.simMonthlyPayroll, s.simActivity, s.simIsB2B,
      s.totalBilling, s.totalPayroll, s.simActivities>>

\* the initial values of App's simulation state; no record is loaded
simDefaults ==
    [simRbt12 |-> Number(0),
     simMonthlyBilling |-> Number(0),
     simMonthlyPayroll |-> Number(0),
     simActivity |-> "servico_intellectual",
     simIsB2B |-> TRUE,
     simIssRate |-> Num(5, 100),
     simActivities |-> <<>>,
     totalBilling |-> Number(0),
     totalPayroll |-> Number(0)]

MemoRbt12Values == {Number(0), Number(1200000)}

MemoBillingValues == {Number(0), Number(125000)}

MemoPayrollValues == {Number(0), Number(28000)}

MemoPercentageValues == {Number(0), Number(100)}

InitMemo ==
    /\ decl \in Declarations
    /\ engineIdle
    /\ cnaeIdle
    /\ appIdle
    /\ sim = simDefaults
    /\ simResults = undefined
    /\ taxSimulation = undefined
    /\ prevTaxSimulation = undefined

\* a setter was called with a new value: App will render again
setSim(next) ==
    /\ rendered = sim
    /\ next # sim
    /\ sim' = next
    /\ UNCHANGED <<engineVars, cnaeVars, eligibilityVars, rateVars, registryVars,
                   docsVars, lookupVars, error, memoVars, simResults, taxSimulation,
                   prevTaxSimulation>>

SetSimRbt12 == \E v \in MemoRbt12Values : setSim([sim EXCEPT !.simRbt12 = v])

SetSimMonthlyBilling ==
    \E v \in MemoBillingValues : setSim([sim EXCEPT !.simMonthlyBilling = v])

SetSimMonthlyPayroll ==
    \E v \in MemoPayrollValues : setSim([sim EXCEPT !.simMonthlyPayroll = v])

\* the select of the single activity is shown while there is no line
SetSimActivity ==
    /\ Len(sim.simActivities) = 0
    /\ \E v \in SimActivityValues : setSim([sim EXCEPT !.simActivity = v])

ToggleSimIsB2B == setSim([sim EXCEPT !.simIsB2B = ~sim.simIsB2B])

SetSimIssRate == \E v \in IssRates : setSim([sim EXCEPT !.simIssRate = v])

AddLine ==
    /\ Len(sim.simActivities) < MaxLines
    /\ setSim([sim EXCEPT !.simActivities =
                  Append(@, [activity |-> "servico_intellectual",
                             percentage |-> Number(0)])])

RemoveLine ==
    \E idx \in DOMAIN sim.simActivities :
        setSim([sim EXCEPT !.simActivities =
                   SubSeq(@, 1, idx - 1) \o SubSeq(@, idx + 1, Len(@))])

SetLineActivity ==
    \E idx \in DOMAIN sim.simActivities, v \in SimActivityValues :
        setSim([sim EXCEPT !.simActivities[idx].activity = v])

SetLinePercentage ==
    \E idx \in DOMAIN sim.simActivities, v \in MemoPercentageValues :
        setSim([sim EXCEPT !.simActivities[idx].percentage = v])

\* App renders: the memo computes again when a dependency differs from the
\* last render's, and keeps its value otherwise
Rerender ==
    /\ rendered # sim
    /\ \E lineRes \in {lineResults(decl, engineCalls(sim))} :
          /\ freshSimulation' = taxSimulationOf(sim, lineRes)
          /\ IF rendered = undefined \/ memoDeps(sim) # memoDeps(rendered)
             THEN /\ simResults' = lineRes
                  /\ taxSimulation' = taxSimulationOf(sim, lineRes)
             ELSE UNCHANGED <<simResults, taxSimulation>>
    /\ rendered' = sim
    /\ UNCHANGED <<engineVars, cnaeVars, eligibilityVars, rateVars, registryVars,
                   docsVars, lookupVars, error, sim, prevTaxSimulation>>

NextMemo ==
    \/ SetSimRbt12
    \/ SetSimMonthlyBilling
    \/ SetSimMonthlyPayroll
    \/ SetSimActivity
    \/ ToggleSimIsB2B
    \/ SetSimIssRate
    \/ AddLine
    \/ RemoveLine
    \/ SetLineActivity
    \/ SetLinePercentage
    \/ Rerender

SpecMemo == InitMemo /\ [][NextMemo]_vars

(***************************************************************************)
(* The classification of one activity code.                                *)
(***************************************************************************)
Digits == {"0", "1", "2", "3", "4", "5", "6", "7", "8", "9"}

\* the characters of a code: the digits and one character that is not a digit
CodeChars == Digits \cup {"."}

Codes == UNION {[1..n -> CodeChars] : n \in 0..MaxCodeLen}

InitCnae ==
    /\ decl \in Declarations
    /\ engineIdle
    /\ simIdle
    /\ appIdle
    /\ cnaeCode \in Codes
    /\ mapped = undefined

MapCnae ==
    /\ mapped = undefined
    /\ mapped' = [activity |-> mapCnaeToActivity(cnaeCode)]
    /\ UNCHANGED <<engineVars, simVars, appVars, cnaeCode>>

NextCnae == MapCnae

SpecCnae == InitCnae /\ [][NextCnae]_vars

(***************************************************************************)
(* The effect of App that maps the registry's activity codes to lines.     *)
(***************************************************************************)
DigitChar(k) == <<"0", "1", "2", "3", "4", "5", "6", "7", "8", "9">>[k + 1]

\* n.toString() of an integer n >= 0: its decimal digits, no leading zero
RECURSIVE toString(_)
toString(n) ==
    IF n < 10 THEN <<DigitChar(n)>>
    ELSE Append(toString(n \div 10), DigitChar(n % 10))

\* the array activities the effect builds from the answer data
activitiesOf(data) ==
    LET primary ==
            IF data.cnae_fiscal # 0
            THEN <<[cnae |-> toString(data.cnae_fiscal),
                    activity |-> mapCnaeToActivity(toString(data.cnae_fiscal)),
                    percentage |-> Number(100)]>>
            ELSE <<>>
        secondary ==
            [i \in DOMAIN data.cnaes_secundarios |->
                [cnae |-> toString(data.cnaes_secundarios[i]),
                 activity |-> mapCnaeToActivity(toString(data.cnaes_secundarios[i])),
                 percentage |-> Number(0)]]
    IN  primary \o secondary

\* a 7-digit code as the number the registry returns: the two digits of the
\* division, then five more; a code of the divisions 01-09 is below 1 000 000
CnaeNumber(division, rest) == division * 100000 + rest

\* the five digits after the division: each leading digit, then 1301
CnaeRests == {g * 10000 + 1301 : g \in 0..9}

PrimaryCnaes == {CnaeNumber(division, rest) : division \in 1..99, rest \in CnaeRests}

SecondaryCnaes == {111301, 220906, 500301, 4711302, 6201501, 8610101}

RegistryAnswers ==
    [cnae_fiscal : PrimaryCnaes,
     cnaes_secundarios : UNION {[1..n -> SecondaryCnaes] : n \in 0..MaxSecondaries}]

InitRegistry ==
    /\ decl \in Declarations
    /\ engineIdle
    /\ cnaeIdle
    /\ simIdle
    /\ eligibilityIdle
    /\ rateIdle
    /\ uiIdle
    /\ brasilApiData \in RegistryAnswers
    /\ mappedActivities = undefined

\* the effect runs for the answer held
MapCnaesEffect ==
    /\ brasilApiData # null
    /\ mappedActivities = undefined
    /\ Len(activitiesOf(brasilApiData)) > 0
    /\ mappedActivities' = [activities |-> activitiesOf(brasilApiData)]
    /\ UNCHANGED <<engineVars, cnaeVars, simVars, eligibilityVars, rateVars, uiVars,
                    brasilApiData>>

NextRegistry == MapCnaesEffect

SpecRegistry == InitRegistry /\ [][NextRegistry]_vars

(***************************************************************************)
(* The documents, their extraction, and the lookups of the registry.       *)
(***************************************************************************)
IsDigitChar(c) == c \in {"0", "1", "2", "3", "4", "5", "6", "7", "8", "9"}

\* str.replace(/\D/g, '')
sanitize(str) == SelectSeq(str, IsDigitChar)

\* two companies the registry knows
CnpjAlfa == <<"1", "1", "2", "2", "2", "3", "3", "3", "0", "0", "0", "1", "8", "1">>

CnpjBeta == <<"4", "4", "5", "5", "5", "6", "6", "6", "0", "0", "0", "1", "7", "2">>

\* the first as a document prints it: 11.222.333/0001-81
CnpjAlfaFormatted ==
    <<"1", "1", ".", "2", "2", "2", ".", "3", "3", "3", "/", "0", "0", "0", "1", "-",
      "8", "1">>

\* a number cut short by the extraction
CnpjShort == <<"1", "2", "3">>

KnownCnpjs == {CnpjAlfa, CnpjBeta}

\* the answer of the registry for a company it knows
CompanyData(cnpj) ==
    [cnpj |-> cnpj,
     cnae_fiscal |-> IF cnpj = CnpjAlfa THEN 6201501 ELSE 4711302,
     cnaes_secundarios |-> <<>>]

pending == [pending |-> TRUE]

\* how fetchCNPJData ends for the number asked: the answer of the registry, or
\* the Error of the status 404 for a number it does not know
fetchCNPJData(cnpj) ==
    IF sanitize(cnpj) \in KnownCnpjs
    THEN {[ok |-> TRUE, data |-> CompanyData(sanitize(cnpj))]}
    ELSE {[ok |-> FALSE, message |-> "CNPJ nao encontrado."]}

\* the documents the user may select, by name
BillingFiles == {[name |-> "faturamentoAlfa.pdf"], [name |-> "faturamentoIlegivel.pdf"]}

PayrollFiles == {[name |-> "folha.pdf"]}

\* what extractBillingData resolves with for a document
extractBillingData(file) ==
    IF file.name = "faturamentoAlfa.pdf"
    THEN [companyName |-> "Alfa Ltda", cnpj |-> CnpjAlfaFormatted,
          records |-> <<[month |-> "Janeiro", year |-> 2024, total |-> 100000]>>]
    ELSE [companyName |-> "", cnpj |-> CnpjShort, records |-> <<>>]

\* what extractPayrollData resolves with for a document
extractPayrollData(file) ==
    [records |-> <<[type |-> "Folha Mensal", category |-> "salario",
                    competence |-> "01/2024", value |-> 28000]>>]

\* what the user types in the search box; the number of the document is
\* looked up without typing
QueryValues == {<<>>, CnpjBeta, CnpjShort}

PromiseAll_BillingOnly(billing, payroll) == billing

\* the state of Promise.all of the two extractions
PromiseAll(billing, payroll) ==
    IF billing = "rejected" \/ payroll = "rejected" THEN "rejected"
    ELSE IF billing = "fulfilled" /\ payroll = "fulfilled" THEN "fulfilled"
    ELSE "pending"

InitIntake ==
    /\ decl \in Declarations
    /\ engineIdle
    /\ cnaeIdle
    /\ simIdle
    /\ appIdle

intakeOthers == <<engineVars, cnaeVars, simVars, eligibilityVars, rateVars, memoVars>>

\* handleFileChange, once the reader has loaded the document
SelectBillingFile ==
    /\ \E file \in BillingFiles : billingFile' = file
    /\ UNCHANGED <<intakeOthers, registryVars, lookupVars, error, payrollFile,
                   isProcessing, companyInfo, billingRecords, payrollRecords,
                   extraction, docsBefore, docsOutcome>>

SelectPayrollFile ==
    /\ \E file \in PayrollFiles : payrollFile' = file
    /\ UNCHANGED <<intakeOthers, registryVars, lookupVars, error, billingFile,
                   isProcessing, companyInfo, billingRecords, payrollRecords,
                   extraction, docsBefore, docsOutcome>>

\* processDocuments up to its await; its button is disabled while isProcessing
ProcessDocuments ==
    /\ ~isProcessing
    /\ docsBefore' = [companyInfo |-> companyInfo,
                      billingRecords |-> billingRecords,
                      payrollRecords |-> payrollRecords]
    /\ IF billingFile = null \/ payrollFile = null
       THEN /\ error' = [message |-> "Por favor, selecione ambos os arquivos PDF (Faturamento e Folha)."]
            /\ docsOutcome' = "missing"
            /\ UNCHANGED <<isProcessing, extraction>>
       ELSE /\ isProcessing' = TRUE
            /\ error' = null
            /\ extraction' = [billing |-> "pending", payroll |-> "pending",
                              billingFile |-> billingFile, payrollFile |-> payrollFile]
            /\ docsOutcome' = "running"
    /\ UNCHANGED <<intakeOthers, registryVars, lookupVars, billingFile, payrollFile,
                   companyInfo, billingRecords, payrollRecords>>

\* executeCnpjSearch up to its await, as the part of a step that starts it
executeCnpjSearch(cnpjToSearch) ==
    /\ Len(lookups) < MaxLookups
    /\ isSearchingCnpj' = TRUE
    /\ brasilApiData' = null
    /\ lookups' = Append(lookups, [cnpj |-> cnpjToSearch, outcome |-> pending])

\* the effect on companyInfo.cnpj would start a lookup for the number cnpj
autoSearches(cnpj) ==
    /\ cnpj # <<>>
    /\ sanitize(cnpj) # <<>>
    /\ Len(sanitize(cnpj)) = 14
    /\ \/ brasilApiData = null
       \/ /\ brasilApiData # null
          /\ sanitize(cnpj) # sanitize(brasilApiData.cnpj)

\* the rest of processDocuments once Promise.all has settled as status, and
\* the effect on companyInfo.cnpj that the render after it runs
afterAwait(status) ==
    IF status = "fulfilled"
    THEN LET billingRes == extractBillingData(extraction.billingFile)
             payrollRes == extractPayrollData(extraction.payrollFile)
         IN  /\ companyInfo' = [name |-> billingRes.companyName, cnpj |-> billingRes.cnpj]
             /\ billingRecords' = billingRes.records
             /\ payrollRecords' = payrollRes.records
             /\ isProcessing' = FALSE
             /\ docsOutcome' = "success"
             /\ IF billingRes.cnpj # companyInfo.cnpj /\ autoSearches(billingRes.cnpj)
                THEN /\ cnpjQuery' = sanitize(billingRes.cnpj)
                     /\ executeCnpjSearch(sanitize(billingRes.cnpj))
                     /\ error' = null
                     /\ UNCHANGED mappedActivities
                ELSE UNCHANGED <<registryVars, lookupVars, error>>
    ELSE IF status = "rejected"
    THEN /\ error' = [message |-> "Erro ao processar documentos. Certifique-se de que os PDFs estao legiveis."]
         /\ isProcessing' = FALSE
         /\ docsOutcome' = "failure"
         /\ UNCHANGED <<registryVars, lookupVars, companyInfo, billingRecords,
                        payrollRecords>>
    ELSE UNCHANGED <<registryVars, lookupVars, error, companyInfo, billingRecords,
                     payrollRecords, isProcessing, docsOutcome>>

\* the promise of extractBillingData settles
SettleBilling ==
    /\ docsOutcome = "running"
    /\ extraction.billing = "pending"
    /\ \E state \in {"fulfilled", "rejected"} :
          /\ extraction' = [extraction EXCEPT !.billing = state]
          /\ afterAwait(PromiseAll(state, extraction.payroll))
    /\ UNCHANGED <<intakeOthers, billingFile, payrollFile, docsBefore>>

\* the promise of extractPayrollData settles
SettlePayroll ==
    /\ docsOutcome = "running"
    /\ extraction.payroll = "pending"
    /\ \E state \in {"fulfilled", "rejected"} :
          /\ extraction' = [extraction EXCEPT !.payroll = state]
          /\ afterAwait(PromiseAll(extraction.billing, state))
    /\ UNCHANGED <<intakeOthers, billingFile, payrollFile, docsBefore>>

\* the text of the search box changes
TypeCnpjQuery ==
    /\ \E value \in QueryValues : cnpjQuery' = value
    /\ UNCHANGED <<intakeOthers, registryVars, docsVars, error, isSearchingCnpj, lookups>>

\* handleCnpjSearch
handleCnpjSearch ==
    /\ cnpjQuery # <<>>
    /\ executeCnpjSearch(cnpjQuery)
    /\ error' = null
    /\ UNCHANGED <<intakeOthers, docsVars, mappedActivities, cnpjQuery>>

\* the button BUSCAR CNPJ, disabled while a lookup runs
ClickSearch ==
    /\ ~isSearchingCnpj
    /\ handleCnpjSearch

\* the Enter key in the search box
PressEnter == handleCnpjSearch

\* the promise of fetchCNPJData of the i-th lookup settles, and the effect on
\* brasilApiData runs for an answer
SettleLookup ==
    \E i \in DOMAIN lookups :
        /\ lookups[i].outcome = pending
        /\ \E outcome \in fetchCNPJData(lookups[i].cnpj) :
              /\ lookups' = [lookups EXCEPT ![i].outcome = outcome]
              /\ IF outcome.ok
                 THEN /\ brasilApiData' = outcome.data
                      /\ mappedActivities' =
                            IF Len(activitiesOf(outcome.data)) > 0
                            THEN [activities |-> activitiesOf(outcome.data)]
                            ELSE mappedActivities
                      /\ UNCHANGED error
                 ELSE /\ error' = [message |-> outcome.message]
                      /\ UNCHANGED registryVars
        /\ isSearchingCnpj' = FALSE
        /\ UNCHANGED <<intakeOthers, docsVars, cnpjQuery>>

NextIntake ==
    \/ SelectBillingFile
    \/ SelectPayrollFile
    \/ ProcessDocuments
    \/ SettleBilling
    \/ SettlePayroll
    \/ TypeCnpjQuery
    \/ ClickSearch
    \/ PressEnter
    \/ SettleLookup

SpecIntake == InitIntake /\ [][NextIntake]_vars

(***************************************************************************)
(* Step 2 of the engine (the unified regime) under a fixed schedule.       *)
(***************************************************************************)
\* bracket, aliquotaEfetiva and simplesTotal as the engine computes them once
\* simplesAnexo is chosen
simplesStep(simplesAnexo, rbt12, monthlyBilling) ==
    LET bracket == bracketOf(tableOf(simplesAnexo), rbt12)
        aliquotaEfetiva == aliquotaEfetivaOf(rbt12, bracket)
    IN  [aliquotaEfetiva |-> aliquotaEfetiva,
         aliquotaNominal |-> bracket.aliquota,
         dasTotal |-> Mul(monthlyBilling, aliquotaEfetiva)]

Anexos == {"I", "III", "V"}

\* the multiples of 240 000 and the ceilings of the brackets
RateRbt12Values ==
    {k * 240000 : k \in 0..MaxRateSteps}
    \cup {180000, 360000, 720000, 1800000, 3600000, 4800000}

RateArgs ==
    {q \in [simplesAnexo : Anexos,
            a : {Number(v) : v \in RateRbt12Values},
            b : {Number(v) : v \in RateRbt12Values},
            monthlyBilling : {Number(0), Number(62500)}] : Le(q.a, q.b)}

InitRate ==
    /\ decl \in Declarations
    /\ engineIdle
    /\ cnaeIdle
    /\ simIdle
    /\ eligibilityIdle
    /\ registryIdle
    /\ uiIdle
    /\ rateArgs \in RateArgs
    /\ rates = undefined

ComputeRates ==
    /\ rates = undefined
    /\ rates' = [a |-> simplesStep(rateArgs.simplesAnexo, rateArgs.a,
                                   rateArgs.monthlyBilling),
                 b |-> simplesStep(rateArgs.simplesAnexo, rateArgs.b,
                                   rateArgs.monthlyBilling)]
    /\ UNCHANGED <<engineVars, cnaeVars, simVars, eligibilityVars, registryVars, uiVars,
                    rateArgs>>

NextRate == ComputeRates

SpecRate == InitRate /\ [][NextRate]_vars

(***************************************************************************)
(* The check of a legal-entity type, beside a call of the engine.          *)
(***************************************************************************)
\* the characters of the two flagged codes
NaturezaChars == {"0", "1", "2", "4", "6"}

NaturezaStrings == UNION {[1..n -> NaturezaChars] : n \in 0..MaxNaturezaLen}

\* the engine is called for a company below the ceiling of the unified regime
NaturezaArgs(d) ==
    {a \in ArgsOf(d) :
        /\ a.rbt12 = Number(1200000)
        /\ a.monthlyBilling = Number(62500)
        /\ a.monthlyPayroll = Number(14000)
        /\ a.activity = "servico_geral"
        /\ a.isB2B
        /\ a.issRate = Num(5, 100)
        /\ a.monthlyProLabore = Number(0)}

InitNatureza ==
    /\ decl \in Declarations
    /\ args \in NaturezaArgs(decl)
    /\ results = undefined
    /\ prevArgs = undefined
    /\ prevResults = undefined
    /\ pc = "ready"
    /\ split = undefined
    /\ cnaeIdle
    /\ simIdle
    /\ naturezaJuridica \in NaturezaStrings
    /\ eligibility = undefined
    /\ rateIdle
    /\ registryIdle
    /\ uiIdle

CheckEligibility ==
    /\ eligibility = undefined
    /\ eligibility' = checkSimplesEligibility(naturezaJuridica)
    /\ UNCHANGED <<engineVars, cnaeVars, simVars, rateVars, registryVars, uiVars,
                    naturezaJuridica>>

NextNatureza == CheckEligibility \/ Call

SpecNatureza == InitNatureza /\ [][NextNatureza]_vars

TypeOK ==
    /\ decl \in Declarations
    /\ pc \in {"ready", "returned", "idle"}
    /\ (pc = "returned") = (results # undefined)


(***************************************************************************)
(* What the specification says of a call, written from its inputs.         *)
(***************************************************************************)
Returned == pc = "returned"

Pct(x) == Mul(x, Number(100))

\* factor = rbt12 > 0 ? (monthlyPayroll * 12) / rbt12 : 0
StatedFactor ==
    IF Gt(args.rbt12, Number(0))
    THEN Div(Mul(args.monthlyPayroll, Number(12)), args.rbt12)
    ELSE Number(0)

StatedSchedule ==
    CASE args.activity = "comercio" -> "I"
      [] args.activity = "servico_intellectual" ->
            IF Ge(StatedFactor, Num(28, 100)) THEN "III" ELSE "V"
      [] OTHER -> "III"

\* the six rows of the schedule the call reports
ReportedTable ==
    CASE results.simples.anexo = "I" -> ANEXO_I
      [] results.simples.anexo = "III" -> ANEXO_III
      [] results.simples.anexo = "V" -> ANEXO_V

LowPresumption == args.activity \in {"comercio", "industria", "hospitalar"}

SurchargeDue == Gt(args.rbt12, Number(5000000))

StatedIncomeRate ==
    LET base == IF LowPresumption THEN Num(8, 100) ELSE Num(32, 100)
    IN  IF SurchargeDue THEN Mul(base, Num(110, 100)) ELSE base

StatedSocialRate ==
    LET base == IF LowPresumption THEN Num(12, 100) ELSE Num(32, 100)
    IN  IF SurchargeDue THEN Mul(base, Num(110, 100)) ELSE base

ServiceActivity == args.activity \in {"servico_geral", "servico_intellectual", "hospitalar"}

(***************************************************************************)
(* C1: for every input the selected schedule is "I" for commerce, "III"    *)
(* for intellectual-service with factor >= 0.28 and "V" below it, and      *)
(* "III" for industry, general-service and hospital-service whatever the   *)
(* factor; the factor is (monthlyPayroll * 12) / rbt12.                    *)
(***************************************************************************)
C1_ScheduleByActivityAndFactor ==
    Returned => results.simples.anexo = StatedSchedule

\* the same statement of the declaration of line 266 alone
ScheduleOfDeclaration266 ==
    (Returned /\ decl = 266) => results.simples.anexo = StatedSchedule

(***************************************************************************)
(* C2: the payroll ratio reported (times 100) as simples.fatorR is exactly *)
(* (monthlyPayroll * 12) / rbt12 when rbt12 > 0 and 0 when rbt12 = 0, with *)
(* no other input or multiplier.                                           *)
(***************************************************************************)
C2_FatorRIsPayrollOverRevenue ==
    Returned => results.simples.fatorR = Pct(StatedFactor)

\* the same statement of the declaration of line 266 alone
FatorROfDeclaration266 ==
    (Returned /\ decl = 266) => results.simples.fatorR = Pct(StatedFactor)

(***************************************************************************)
(* C3: for the bracket the call reports, the unified effective rate is     *)
(* ((rbt12 * nominalRate) - deduction) / rbt12 when rbt12 > 0 and the      *)
(* nominal rate when rbt12 = 0; dasTotal = monthlyBilling * effectiveRate, *)
(* which is 0 for monthlyBilling = 0.                                      *)
(***************************************************************************)
C3_EffectiveRateAndDasTotal ==
    Returned =>
        LET nominal == Div(results.simples.aliquotaNominal, Number(100))
            deduction == results.simples.parcelaDeduzir
            effective ==
                IF Gt(args.rbt12, Number(0))
                THEN Div(Sub(Mul(args.rbt12, nominal), deduction), args.rbt12)
                ELSE nominal
        IN  /\ results.simples.aliquotaEfetiva = Pct(effective)
            /\ results.simples.dasTotal = Mul(args.monthlyBilling, effective)
            /\ (args.monthlyBilling = Number(0) => results.simples.dasTotal = Number(0))

C3_Witness ==
    /\ Returned
    /\ args.rbt12 = Number(1200000)
    /\ args.monthlyBilling = Number(125000)
    /\ results.simples.anexo = "III"
    /\ results.simples.aliquotaEfetiva = Num(1303, 100)
    /\ results.simples.dasTotal = Num(32575, 2)

(***************************************************************************)
(* C4: the bracket is the first row of the selected six-row schedule whose *)
(* ceiling is >= rbt12 (a rbt12 equal to a ceiling belongs to that row),   *)
(* and the last row when rbt12 exceeds every ceiling; aliquotaNominal and  *)
(* parcelaDeduzir are those of that row.                                   *)
(***************************************************************************)
C4_BracketLookup ==
    Returned =>
        LET T == ReportedTable
            IsRow(i) == /\ results.simples.aliquotaNominal = Pct(T[i].aliquota)
                        /\ results.simples.parcelaDeduzir = T[i].deduzir
        IN  /\ Len(T) = 6
            /\ \A i \in 1..6 :
                  ( /\ Le(args.rbt12, T[i].limite)
                    /\ \A j \in 1..(i - 1) : Gt(args.rbt12, T[j].limite) ) => IsRow(i)
            /\ (\A j \in 1..6 : Gt(args.rbt12, T[j].limite)) => IsRow(6)

C4_Witness ==
    /\ Returned
    /\ args.rbt12 = Number(180000)
    /\ results.simples.anexo = "III"
    /\ results.simples.aliquotaNominal = Number(6)
    /\ results.simples.parcelaDeduzir = Number(0)

(***************************************************************************)
(* C5: eligibility is only a flag: simples.elegivel is true exactly when   *)
(* rbt12 <= 4800000 and lucroPresumido.elegivel exactly when rbt12 <=      *)
(* 78000000; above 4800000 dasTotal is still monthlyBilling times the      *)
(* effective rate of the last bracket, a finite number.                    *)
(***************************************************************************)
C5_EligibilityIsOnlyAFlag ==
    Returned =>
        /\ results.simples.elegivel = Le(args.rbt12, Number(4800000))
        /\ results.lucroPresumido.elegivel = Le(args.rbt12, Number(78000000))
        /\ Gt(args.rbt12, Number(4800000)) =>
              LET last == ReportedTable[6]
                  effective ==
                      Div(Sub(Mul(args.rbt12, last.aliquota), last.deduzir), args.rbt12)
              IN  /\ results.simples.dasTotal = Mul(args.monthlyBilling, effective)
                  /\ results.simples.aliquotaEfetiva = Pct(effective)
                  /\ isFinite(results.simples.dasTotal)
        /\ Gt(args.rbt12, Number(78000000)) =>
              /\ isFinite(results.lucroPresumido.total)
              /\ results.lucroPresumido.total =
                    Add(Add(Add(Add(results.lucroPresumido.irpj,
                                    results.lucroPresumido.csll),
                                results.lucroPresumido.pis),
                            results.lucroPresumido.cofins),
                        results.lucroPresumido.issqn)

C5_Witness ==
    /\ Returned
    /\ args.rbt12 = Number(6000000)
    /\ args.monthlyBilling = Number(125000)
    /\ args.activity = "comercio"
    /\ results.simples.elegivel = FALSE
    /\ results.lucroPresumido.elegivel = TRUE
    /\ results.simples.dasTotal = Number(15875)

(***************************************************************************)
(* C6: the presumption rates are 8% (income) and 12% (social               *)
(* contribution) for commerce, industry and hospital-service and 32%/32%   *)
(* for general-service and intellectual-service; when rbt12 > 5000000 both *)
(* are multiplied by 1.10 and isLC224Applied is true; when rbt12 <=        *)
(* 5000000 they are the base rates and isLC224Applied is false.            *)
(***************************************************************************)
C6_PresumptionRatesAndSurcharge ==
    Returned =>
        /\ results.lucroPresumido.presuncaoirpj = Pct(StatedIncomeRate)
        /\ results.lucroPresumido.csll =
              Mul(Mul(args.monthlyBilling, StatedSocialRate), Num(9, 100))
        /\ results.lucroPresumido.isLC224Applied = SurchargeDue
        /\ Le(args.rbt12, Number(5000000)) =>
              /\ results.lucroPresumido.presuncaoirpj \in {Number(8), Number(32)}
              /\ results.lucroPresumido.isLC224Applied = FALSE

C6_Witness ==
    /\ Returned
    /\ args.rbt12 = Number(6000000)
    /\ args.activity = "comercio"
    /\ args.monthlyBilling = Number(125000)
    /\ results.lucroPresumido.presuncaoirpj = Num(88, 10)
    /\ results.lucroPresumido.isLC224Applied = TRUE

(***************************************************************************)
(* C7: with base = monthlyBilling * incomePresumptionRate, irpj is         *)
(* base * 15% when base <= 20000 (base exactly 20000 included) and         *)
(* base * 15% + (base - 20000) * 10% when base > 20000.                    *)
(***************************************************************************)
C7_IrpjProgressiveSurcharge ==
    Returned =>
        LET base == Mul(args.monthlyBilling, StatedIncomeRate)
        IN  results.lucroPresumido.irpj =
                IF Le(base, Number(20000))
                THEN Mul(base, Num(15, 100))
                ELSE Add(Mul(base, Num(15, 100)),
                         Mul(Sub(base, Number(20000)), Num(10, 100)))

C7_Witness ==
    /\ Returned
    /\ args.rbt12 = Number(1200000)
    /\ args.activity = "servico_geral"
    /\ args.monthlyBilling = Number(125000)
    /\ results.lucroPresumido.irpj = Number(8000)

(***************************************************************************)
(* C8: for every input csll = monthlyBilling * socialPresumptionRate * 9%, *)
(* pis = monthlyBilling * 0.65% and cofins = monthlyBilling * 3.0% for     *)
(* every activity, and total = irpj + csll + pis + cofins + issqn.         *)
(***************************************************************************)
C8_ComponentsAndTotal ==
    Returned =>
        LET lp == results.lucroPresumido
        IN  /\ lp.csll = Mul(Mul(args.monthlyBilling, StatedSocialRate), Num(9, 100))
            /\ lp.pis = Mul(args.monthlyBilling, Num(65, 10000))
            /\ lp.cofins = Mul(args.monthlyBilling, Num(3, 100))
            /\ lp.total = Add(lp.irpj, Add(lp.csll, Add(lp.pis, Add(lp.cofins, lp.issqn))))

C8_Witness ==
    /\ Returned
    /\ args.rbt12 = Number(1200000)
    /\ args.activity = "servico_geral"
    /\ args.monthlyBilling = Number(125000)
    /\ args.issRate = Num(5, 100)
    /\ results.lucroPresumido.csll = Number(3600)
    /\ results.lucroPresumido.pis = Num(1625, 2)
    /\ results.lucroPresumido.cofins = Number(3750)
    /\ results.lucroPresumido.issqn = Number(6250)
    /\ results.lucroPresumido.total = Num(44825, 2)

(***************************************************************************)
(* C9: issqn = monthlyBilling * issRate for general-service,               *)
(* intellectual-service and hospital-service and 0 for commerce and        *)
(* industry; two calls that differ only in issRate agree on the unified    *)
(* result and the transition result, and for commerce and industry on the  *)
(* whole output.                                                           *)
(***************************************************************************)
C9_IssRateOnlyInMunicipalTax ==
    /\ Returned =>
          results.lucroPresumido.issqn =
              IF ServiceActivity THEN Mul(args.monthlyBilling, args.issRate)
              ELSE Number(0)
    /\ (prevResults # undefined /\ prevArgs = [args EXCEPT !.issRate = prevArgs.issRate]) =>
          /\ results.simples = prevResults.simples
          /\ results.reforma2026 = prevResults.reforma2026
          /\ args.activity \in {"comercio", "industria"} => results = prevResults

C9_Witness ==
    /\ prevResults # undefined
    /\ args.activity = "comercio"
    /\ args.monthlyBilling = Number(125000)
    /\ prevArgs.issRate = Num(2, 100)
    /\ args.issRate = Num(5, 100)
    /\ results.lucroPresumido.issqn = Number(0)
    /\ results = prevResults

(***************************************************************************)
(* C10: every division of the engine guards a zero denominator with a      *)
(* defined fallback: with monthlyBilling = 0 lucroPresumido.aliquotaEfetiva*)
(* is the finite value 0, and every number of the output is finite.        *)
(***************************************************************************)
C10_DivisionsAreGuarded ==
    Returned =>
        /\ isFinite(results.simples.fatorR)
        /\ isFinite(results.simples.aliquotaEfetiva)
        /\ isFinite(results.lucroPresumido.aliquotaEfetiva)
        /\ args.monthlyBilling = Number(0) =>
              results.lucroPresumido.aliquotaEfetiva = Number(0)


(***************************************************************************)
(* C11: the recommendation names the presumed-profit regime exactly when   *)
(* lucroPresumido.total < simples.dasTotal and the unified regime          *)
(* otherwise, a tie included; the hybrid-regime qualifier is appended      *)
(* exactly when the unified regime is named and isB2B is true.             *)
(***************************************************************************)
C11_Recommendation ==
    Returned =>
        results.sugestao =
            IF Lt(results.lucroPresumido.total, results.simples.dasTotal)
            THEN "Lucro Presumido"
            ELSE IF args.isB2B
                 THEN "Simples Nacional (Considere Regime Hibrido para B2B)"
                 ELSE "Simples Nacional"

C11_Witness ==
    /\ Returned
    /\ args.isB2B
    /\ args.monthlyBilling = Number(125000)
    /\ Lt(results.lucroPresumido.total, results.simples.dasTotal)
    /\ results.sugestao = "Lucro Presumido"

(***************************************************************************)
(* C12: for intellectual-service and every rbt12 >= 0 the unified          *)
(* effective rate of schedule III is no higher than that of schedule V for *)
(* the same rbt12.                                                         *)
(***************************************************************************)
\* the effective rate of schedule T for the rbt12 of the call, as stated
StatedEffectiveRate(T) ==
    LET r == args.rbt12
        i == IF \E k \in 1..6 : Le(r, T[k].limite)
             THEN CHOOSE k \in 1..6 :
                     /\ Le(r, T[k].limite)
                     /\ \A j \in 1..(k - 1) : Gt(r, T[j].limite)
             ELSE 6
    IN  IF Gt(r, Number(0))
        THEN Div(Sub(Mul(r, T[i].aliquota), T[i].deduzir), r)
        ELSE T[i].aliquota

C12_ScheduleIIINeverDearer ==
    (Returned /\ args.activity = "servico_intellectual") =>
        /\ results.simples.anexo = "III" =>
              Le(results.simples.aliquotaEfetiva, Pct(StatedEffectiveRate(ANEXO_V)))
        /\ results.simples.anexo = "V" =>
              Le(Pct(StatedEffectiveRate(ANEXO_III)), results.simples.aliquotaEfetiva)

\* C12 as amended: schedule III is no dearer than schedule V up to
\* rbt12 = 4 320 000 and strictly dearer above it
C12_ScheduleIIICheaperUpTo4320000 ==
    (Returned /\ args.activity = "servico_intellectual") =>
        /\ (results.simples.anexo = "III" /\ Le(args.rbt12, Number(4320000))) =>
              Le(results.simples.aliquotaEfetiva, Pct(StatedEffectiveRate(ANEXO_V)))
        /\ (results.simples.anexo = "III" /\ Gt(args.rbt12, Number(4320000))) =>
              Gt(results.simples.aliquotaEfetiva, Pct(StatedEffectiveRate(ANEXO_V)))
        /\ (results.simples.anexo = "V" /\ Le(args.rbt12, Number(4320000))) =>
              Le(Pct(StatedEffectiveRate(ANEXO_III)), results.simples.aliquotaEfetiva)
        /\ (results.simples.anexo = "V" /\ Gt(args.rbt12, Number(4320000))) =>
              Gt(Pct(StatedEffectiveRate(ANEXO_III)), results.simples.aliquotaEfetiva)

C12_Witness ==
    /\ Returned
    /\ args.activity = "servico_intellectual"
    /\ args.rbt12 = Number(4320000)
    /\ results.simples.anexo = "III"
    /\ results.simples.aliquotaEfetiva = Number(18)
    /\ Pct(StatedEffectiveRate(ANEXO_V)) = Number(18)

(***************************************************************************)
(* C13: calling the engine with 60% and with 40% of monthlyBilling (same   *)
(* activity, same rbt12) gives presumed-profit totals whose sum equals     *)
(* lucroPresumido.total of the call with the undivided monthlyBilling.     *)
(***************************************************************************)
SplitTotal == Add(split.line60.lucroPresumido.total, split.line40.lucroPresumido.total)

C13_SplitTotalsAddUp ==
    split # undefined => SplitTotal = results.lucroPresumido.total

\* C13 as amended: the totals add up exactly when the undivided presumed
\* base monthlyBilling * incomePresumptionRate does not exceed 20000; above
\* it the two lines together pay less than the undivided call
C13_SplitTotalsAddUpBelowThreshold ==
    split # undefined =>
        LET base == Mul(args.monthlyBilling, StatedIncomeRate)
        IN  /\ Le(base, Number(20000)) => SplitTotal = results.lucroPresumido.total
            /\ Gt(base, Number(20000)) => Lt(SplitTotal, results.lucroPresumido.total)

C13_Witness ==
    /\ split # undefined
    /\ args.rbt12 = Number(1200000)
    /\ args.activity = "servico_geral"
    /\ args.monthlyBilling = Number(62500)
    /\ args.issRate = Num(5, 100)
    /\ results.lucroPresumido.irpj = Number(3000)
    /\ split.line60.lucroPresumido.irpj = Number(1800)
    /\ split.line40.lucroPresumido.irpj = Number(1200)
    /\ SplitTotal = results.lucroPresumido.total

(***************************************************************************)
(* C18: isB2B changes only the recommendation text: two calls that differ  *)
(* only in isB2B return identical simples, lucroPresumido and reforma2026. *)
(***************************************************************************)
C18_IsB2BOnlyInRecommendation ==
    (prevResults # undefined /\ prevArgs = [args EXCEPT !.isB2B = ~args.isB2B]) =>
        /\ results.simples = prevResults.simples
        /\ results.lucroPresumido = prevResults.lucroPresumido
        /\ results.reforma2026 = prevResults.reforma2026

C18_Witness ==
    /\ prevResults # undefined
    /\ prevArgs = [args EXCEPT !.isB2B = ~args.isB2B]
    /\ args.activity = "servico_geral"
    /\ args.monthlyBilling = Number(125000)
    /\ results.sugestao # prevResults.sugestao
    /\ results.lucroPresumido = prevResults.lucroPresumido

(***************************************************************************)
(* C19: for inputs >= 0 and issRate in [0.02, 0.05] every rate field of    *)
(* the output (simples.aliquotaEfetiva, simples.aliquotaNominal,           *)
(* simples.fatorR, lucroPresumido.aliquotaEfetiva,                         *)
(* lucroPresumido.presuncaoirpj) is a percentage in [0, 100].              *)
(***************************************************************************)
InPct(x) == isFinite(x) /\ Ge(x, Number(0)) /\ Le(x, Number(100))

C19_RatesArePercentages ==
    Returned =>
        /\ InPct(results.simples.aliquotaEfetiva)
        /\ InPct(results.simples.aliquotaNominal)
        /\ InPct(results.simples.fatorR)
        /\ InPct(results.lucroPresumido.aliquotaEfetiva)
        /\ InPct(results.lucroPresumido.presuncaoirpj)

\* C19 as amended: the two unified rates and the presumption rate are in
\* [0, 100]; fatorR is finite and >= 0 and exceeds 100 when the annualised
\* payroll exceeds rbt12; the presumed-profit effective rate is in [0, 100]
\* for monthlyBilling > 0 and NaN for monthlyBilling = 0
C19_RatesArePercentagesExceptFatorR ==
    Returned =>
        /\ InPct(results.simples.aliquotaEfetiva)
        /\ InPct(results.simples.aliquotaNominal)
        /\ InPct(results.lucroPresumido.presuncaoirpj)
        /\ isFinite(results.simples.fatorR)
        /\ Ge(results.simples.fatorR, Number(0))
        /\ ( /\ Gt(args.rbt12, Number(0))
             /\ Gt(Mul(args.monthlyPayroll, Number(12)), args.rbt12) ) =>
              Gt(results.simples.fatorR, Number(100))
        /\ Gt(args.monthlyBilling, Number(0)) =>
              InPct(results.lucroPresumido.aliquotaEfetiva)
        /\ args.monthlyBilling = Number(0) =>
              isNaN(results.lucroPresumido.aliquotaEfetiva)

C19_Witness ==
    /\ Returned
    /\ decl = 266
    /\ args.rbt12 = Number(120000)
    /\ args.monthlyPayroll = Number(14000)
    /\ args.monthlyBilling = Number(62500)
    /\ results.simples.fatorR = Number(140)


(***************************************************************************)
(* The classification of an activity code, as the specification states it. *)
(***************************************************************************)
DigitValue(c) ==
    CASE c = "0" -> 0 [] c = "1" -> 1 [] c = "2" -> 2 [] c = "3" -> 3
      [] c = "4" -> 4 [] c = "5" -> 5 [] c = "6" -> 6 [] c = "7" -> 7
      [] c = "8" -> 8 [] c = "9" -> 9

\* the number the first two characters write, or -1 when the code is shorter
\* than two characters or they are not two digits
PrefixNumber(code) ==
    IF Len(code) >= 2 /\ code[1] \in Digits /\ code[2] \in Digits
    THEN 10 * DigitValue(code[1]) + DigitValue(code[2])
    ELSE -1

StatedGeneralService ==
    (35..39) \cup (41..43) \cup (49..53) \cup {55, 56} \cup (77..82) \cup (90..96)

StatedIntellectualService == {62, 63} \cup (69..75) \cup {85}

\* the activity stated for the division p
StatedActivityOfDivision(p) ==
    IF p \in 45..47 THEN "comercio"
    ELSE IF p \in 10..33 THEN "industria"
    ELSE IF p \in StatedGeneralService THEN "servico_geral"
    ELSE IF p \in StatedIntellectualService THEN "servico_intellectual"
    ELSE IF p = 86 THEN "hospitalar"
    ELSE "servico_intellectual"

StatedActivity(code) == StatedActivityOfDivision(PrefixNumber(code))

\* C20: mapCnaeToActivity classifies a code by its first two characters:
\* 45-47 commerce, 10-33 industry, 35-39, 41-43, 49-53, 55, 56, 77-82, 90-96
\* general service, 62, 63, 69-75, 85 intellectual service, 86 hospital
\* service; every other prefix, and every code shorter than two characters,
\* gives intellectual service; the result is always one of the five activities.
C20_ClassifiedByPrefix ==
    mapped # undefined =>
        /\ mapped.activity = StatedActivity(cnaeCode)
        /\ mapped.activity \in Activities

\* a code of the hospital division has been classified
C20_Witness ==
    /\ mapped = [activity |-> "hospitalar"]
    /\ cnaeCode = <<"8", "6", "1">>


(***************************************************************************)
(* What the specification says of the simulator's aggregation.             *)
(***************************************************************************)
Aggregated == taxSimulation # undefined /\ Len(activeActivities(sim)) > 0

\* the engine results of the active lines, in their order
LineRes == [i \in DOMAIN simResults |-> simResults[i].res]

RECURSIVE Sum(_)
Sum(numbers) == IF numbers = <<>> THEN Number(0) ELSE Add(Head(numbers), Sum(Tail(numbers)))

\* the sum of the monthlyBilling values passed to the engine
SumScaledBilling ==
    Sum([i \in DOMAIN simResults |-> Mul(mBillingOf(sim), simResults[i].weight)])

\* C14: every aggregated absolute amount (dasTotal, irpj, csll, pis, cofins,
\* issqn, total, cbs_ibs) equals the sum over the active lines of that amount
\* in the line's engine result.
C14_AmountsAreLineSums ==
    Aggregated =>
        /\ taxSimulation.simples.dasTotal =
              Sum([i \in DOMAIN LineRes |-> LineRes[i].simples.dasTotal])
        /\ taxSimulation.lucroPresumido.irpj =
              Sum([i \in DOMAIN LineRes |-> LineRes[i].lucroPresumido.irpj])
        /\ taxSimulation.lucroPresumido.csll =
              Sum([i \in DOMAIN LineRes |-> LineRes[i].lucroPresumido.csll])
        /\ taxSimulation.lucroPresumido.pis =
              Sum([i \in DOMAIN LineRes |-> LineRes[i].lucroPresumido.pis])
        /\ taxSimulation.lucroPresumido.cofins =
              Sum([i \in DOMAIN LineRes |-> LineRes[i].lucroPresumido.cofins])
        /\ taxSimulation.lucroPresumido.issqn =
              Sum([i \in DOMAIN LineRes |-> LineRes[i].lucroPresumido.issqn])
        /\ taxSimulation.lucroPresumido.total =
              Sum([i \in DOMAIN LineRes |-> LineRes[i].lucroPresumido.total])
        /\ taxSimulation.reforma2026.cbs_ibs =
              Sum([i \in DOMAIN LineRes |-> LineRes[i].reforma2026.cbs_ibs])

\* what does hold of the amounts: all but issqn are the line sums, and issqn
\* is the line sum plus the first line's issqn once more
AmountsOfTheAggregation ==
    Aggregated =>
        /\ taxSimulation.simples.dasTotal =
              Sum([i \in DOMAIN LineRes |-> LineRes[i].simples.dasTotal])
        /\ taxSimulation.lucroPresumido.total =
              Sum([i \in DOMAIN LineRes |-> LineRes[i].lucroPresumido.total])
        /\ taxSimulation.reforma2026.cbs_ibs =
              Sum([i \in DOMAIN LineRes |-> LineRes[i].reforma2026.cbs_ibs])
        /\ taxSimulation.lucroPresumido.issqn =
              Add(LineRes[1].lucroPresumido.issqn,
                  Sum([i \in DOMAIN LineRes |-> LineRes[i].lucroPresumido.issqn]))

\* C15: each blended effective rate (unified and presumed-profit) equals the
\* summed tax total divided by the sum of the scaled monthlyBilling values
\* passed to the engine, for any set of line percentages.
C15_BlendedRatesOverScaledBilling ==
    (Aggregated /\ Gt(SumScaledBilling, Number(0))) =>
        /\ taxSimulation.simples.aliquotaEfetiva =
              Pct(Div(taxSimulation.simples.dasTotal, SumScaledBilling))
        /\ taxSimulation.lucroPresumido.aliquotaEfetiva =
              Pct(Div(taxSimulation.lucroPresumido.total, SumScaledBilling))

\* what does hold of the rates: the totals are divided by the unscaled
\* monthly billing
RatesOfTheAggregation ==
    (Aggregated /\ Gt(mBillingOf(sim), Number(0))) =>
        /\ taxSimulation.simples.aliquotaEfetiva =
              Pct(Div(taxSimulation.simples.dasTotal, mBillingOf(sim)))
        /\ taxSimulation.lucroPresumido.aliquotaEfetiva =
              Pct(Div(taxSimulation.lucroPresumido.total, mBillingOf(sim)))

\* C16: the aggregated result does not depend on the order of the activity
\* lines: with the same lines in another order every field of the result is
\* the same.
C16_OrderIndependent ==
    prevTaxSimulation # undefined => taxSimulation = prevTaxSimulation

NamesPresumido(sugestao) ==
    sugestao \in {"Lucro Presumido", "Lucro Presumido (Considere Regime Hibrido)"}

Qualified(sugestao) ==
    sugestao \in {"Lucro Presumido (Considere Regime Hibrido)",
                  "Simples Nacional (Considere Regime Hibrido para B2B)"}

\* C17: the recommendation after the aggregation follows the engine's rule:
\* it names the regime with the lower aggregated total, and the hybrid-regime
\* qualifier is attached exactly when the unified regime wins and the client
\* is B2B.
C17_AggregatedRecommendation ==
    Aggregated =>
        LET presumidoWins == Lt(taxSimulation.lucroPresumido.total,
                                taxSimulation.simples.dasTotal)
        IN  /\ NamesPresumido(taxSimulation.sugestao) = presumidoWins
            /\ Qualified(taxSimulation.sugestao) = (~presumidoWins /\ sim.simIsB2B)

\* what does hold of the recommendation: the regime named is the cheaper one,
\* and the qualifier is attached exactly when presumed profit wins and the
\* client is B2B
RecommendationOfTheAggregation ==
    Aggregated =>
        LET presumidoWins == Lt(taxSimulation.lucroPresumido.total,
                                taxSimulation.simples.dasTotal)
        IN  /\ NamesPresumido(taxSimulation.sugestao) = presumidoWins
            /\ Qualified(taxSimulation.sugestao) = (presumidoWins /\ sim.simIsB2B)


(***************************************************************************)
(* The check of the legal-entity type, as the specification states it.     *)
(***************************************************************************)
FlaggedCodes == {<<"2", "0", "1", "1">>, <<"2", "0", "4", "6">>}

\* the shape of the result: a reason exactly when not eligible
ReasonOnlyWhenIneligible ==
    IF eligibility.eligible THEN DOMAIN eligibility = {"eligible"}
    ELSE DOMAIN eligibility = {"eligible", "reason"}

\* the engine's flag follows rbt12 alone
EngineIgnoresTheCheck ==
    Returned => results.simples.elegivel = Le(args.rbt12, Number(4800000))

UndividedSchedule ==
    IF decl = 73
    THEN simplesAnexo73("servico_intellectual",
                        fatorR73(rbt12Of(sim), mPayrollOf(sim), Number(0)))
    ELSE simplesAnexo266("servico_intellectual",
                         fatorR266(rbt12Of(sim), mPayrollOf(sim)))

\* C22: the schedule chosen for an intellectual-service line does not depend
\* on the line's weight: for every weight in (0, 100] it is the schedule the
\* engine selects for the undivided monthlyPayroll and rbt12.
C22_ScheduleIndependentOfWeight ==
    Aggregated =>
        \A i \in DOMAIN simResults :
            LET line == activeActivities(sim)[i]
            IN  (line.activity = "servico_intellectual"
                    /\ Le(line.percentage, Number(100)))
                => simResults[i].res.simples.anexo = UndividedSchedule

\* what does hold: a line that carries the whole payroll gets the schedule of
\* the undivided company
ScheduleOfAFullLine ==
    Aggregated =>
        \A i \in DOMAIN simResults :
            LET line == activeActivities(sim)[i]
            IN  (line.activity = "servico_intellectual"
                    /\ line.percentage = Number(100))
                => simResults[i].res.simples.anexo = UndividedSchedule

\* no manual override of the three amounts, and one active line at 100%
NoOverridesSingleLine ==
    /\ taxSimulation # undefined
    /\ sim.simRbt12 = Number(0)
    /\ sim.simMonthlyBilling = Number(0)
    /\ sim.simMonthlyPayroll = Number(0)
    /\ Len(activeActivities(sim)) = 1
    /\ activeActivities(sim)[1].percentage = Number(100)

\* C30: with no manual overrides and a single activity line at 100%, the
\* payroll ratio the engine reports (simples.fatorR) equals the accumulated
\* Factor R of the analysis tab, so both views are on the same side of 28%.
C30_FatorRAgreesWithAnalysisTab ==
    NoOverridesSingleLine =>
        /\ taxSimulation.simples.fatorR = accumulatedFactorR(sim)
        /\ Ge(taxSimulation.simples.fatorR, Number(28))
              = Ge(accumulatedFactorR(sim), Number(28))

\* the two ratios agree where the engine is the declaration of line 266; the
\* declaration of line 73 applies the 1.08 uplift once more
FatorRAgreesUnderDeclaration266 ==
    NoOverridesSingleLine =>
        taxSimulation.simples.fatorR =
            IF decl = 266 THEN accumulatedFactorR(sim)
            ELSE Mul(accumulatedFactorR(sim), Num(108, 100))


(***************************************************************************)
(* The recommendation and the eligibility flags.                           *)
(***************************************************************************)
NamesUnified(sugestao) ==
    sugestao \in {"Simples Nacional",
                  "Simples Nacional (Considere Regime Hibrido para B2B)"}

\* C28: the engine never recommends a regime it reports as ineligible:
\* whenever sugestao names the unified regime simples.elegivel is true, and
\* whenever it names presumed profit lucroPresumido.elegivel is true.
C28_RecommendedRegimeIsEligible ==
    Returned =>
        /\ NamesUnified(results.sugestao) => results.simples.elegivel
        /\ results.sugestao = "Lucro Presumido" => results.lucroPresumido.elegivel

\* what does hold: up to the ceiling of the unified regime both regimes are
\* reported eligible, so the recommended one is
RecommendedRegimeIsEligibleUpTo4800000 ==
    (Returned /\ Le(args.rbt12, Number(4800000))) =>
        /\ results.simples.elegivel
        /\ results.lucroPresumido.elegivel


(***************************************************************************)
(* The unified effective rate as a function of rbt12.                      *)
(***************************************************************************)
\* C26: for every schedule and every rbt12 >= 0 the unified effective rate is
\* non-negative and never exceeds the nominal rate of the bracket used, so
\* 0 <= dasTotal <= monthlyBilling * nominalRate for monthlyBilling >= 0.
C26_EffectiveRateWithinNominal ==
    rates # undefined =>
        \A r \in {rates.a, rates.b} :
            /\ Ge(r.aliquotaEfetiva, Number(0))
            /\ Le(r.aliquotaEfetiva, r.aliquotaNominal)
            /\ Ge(r.dasTotal, Number(0))
            /\ Le(r.dasTotal, Mul(rateArgs.monthlyBilling, r.aliquotaNominal))

\* schedule I just above the ceiling of the fifth bracket, where the
\* deduction is largest against the revenue
C26_Witness ==
    /\ rates # undefined
    /\ rateArgs.simplesAnexo = "I"
    /\ rateArgs.b = Number(3840000)
    /\ rateArgs.monthlyBilling = Number(62500)
    /\ rates.b.aliquotaEfetiva = Num(293, 3200)
    /\ rates.b.aliquotaNominal = Num(19, 100)
    /\ Gt(rates.b.dasTotal, Number(0))

\* C27: within a fixed schedule the unified effective rate is non-decreasing
\* in rbt12: for all 0 < a <= b the rate for a is at most the rate for b,
\* also when a and b are on either side of a bracket ceiling.
C27_EffectiveRateNonDecreasing ==
    (rates # undefined /\ Gt(rateArgs.a, Number(0))) =>
        Le(rates.a.aliquotaEfetiva, rates.b.aliquotaEfetiva)

\* C27 as amended: the rate is non-decreasing for 0 < a <= b when both are at
\* most 3 600 000 (the ceiling of the fifth bracket) or both are above it;
\* across that ceiling it falls: in every schedule the rate for 3 840 000 is
\* lower than the rate for 3 600 000.
C27_EffectiveRateNonDecreasingApartFromSixthBracket ==
    (rates # undefined /\ Gt(rateArgs.a, Number(0))) =>
        /\ (Le(rateArgs.b, Number(3600000)) \/ Gt(rateArgs.a, Number(3600000)))
              => Le(rates.a.aliquotaEfetiva, rates.b.aliquotaEfetiva)
        /\ (rateArgs.a = Number(3600000) /\ rateArgs.b = Number(3840000))
              => Lt(rates.b.aliquotaEfetiva, rates.a.aliquotaEfetiva)

\* schedule III on either side of the ceiling of the fifth bracket: 17.51%
\* at the ceiling, 16.125% above it
C27_Witness ==
    /\ rates # undefined
    /\ rateArgs.simplesAnexo = "III"
    /\ rateArgs.a = Number(3600000)
    /\ rateArgs.b = Number(3840000)
    /\ rates.a.aliquotaEfetiva = Num(1751, 10000)
    /\ rates.b.aliquotaEfetiva = Num(129, 800)


(***************************************************************************)
(* The activity assigned to a code of the registry.                        *)
(***************************************************************************)
\* the codes of the answer, the primary first
AnswerCodes == <<brasilApiData.cnae_fiscal>> \o brasilApiData.cnaes_secundarios

\* C29: for every 7-digit code the registry returns as a number, primary or
\* secondary, the activity the caller assigns is the table lookup of the
\* code's two-digit division, the divisions 01-09 included, which fall to the
\* intellectual-service default.
C29_ActivityOfTheDivision ==
    mappedActivities # undefined =>
        \A i \in DOMAIN mappedActivities.activities :
            mappedActivities.activities[i].activity =
                StatedActivityOfDivision(AnswerCodes[i] \div 100000)

\* what does hold: the codes of the divisions 10-99 get the activity of their
\* division; a code of the divisions 01-09 gets the activity of its first two
\* significant digits
ActivityOfTheFirstTwoDigits ==
    mappedActivities # undefined =>
        \A i \in DOMAIN mappedActivities.activities :
            mappedActivities.activities[i].activity =
                StatedActivityOfDivision(
                    IF AnswerCodes[i] >= 1000000 THEN AnswerCodes[i] \div 100000
                    ELSE AnswerCodes[i] \div 10000)


(***************************************************************************)
(* C23: the memoised simulation across changes of its inputs.              *)
(***************************************************************************)
Rendered == rendered = sim

\* C23: after any sequence of changes to the simulation inputs, once App has
\* rendered, the memoised taxSimulation equals the aggregation computed anew
\* from the current inputs
C23_MemoIsCurrent == Rendered => taxSimulation = freshSimulation

\* the memo is current whenever the last change was not of simIssRate alone:
\* it equals the aggregation of the inputs with the rate it was computed for
MemoIsCurrentApartFromIssRate ==
    Rendered =>
        \/ taxSimulation = freshSimulation
        \/ /\ taxSimulation # freshSimulation
           /\ taxSimulation.simples = freshSimulation.simples
           /\ taxSimulation.reforma2026 = freshSimulation.reforma2026


(***************************************************************************)
(* C24: lookups of the registry that overlap.                              *)
(***************************************************************************)
InFlight(i) == lookups[i].outcome = pending

NoLookupInFlight == \A i \in DOMAIN lookups : ~InFlight(i)

\* what a lookup that has settled answered: the data, or nothing
ResponseOf(lookup) == IF lookup.outcome.ok THEN lookup.outcome.data ELSE null

LastStartedWins ==
    (lookups # <<>> /\ NoLookupInFlight)
        => brasilApiData = ResponseOf(lookups[Len(lookups)])

SearchingWhileInFlight ==
    (\E i \in DOMAIN lookups : InFlight(i)) => isSearchingCnpj

\* C24: once no lookup is in flight brasilApiData holds the response of the
\* lookup started last, and isSearchingCnpj is true while a lookup is in flight
C24_LastStartedLookupWins ==
    /\ LastStartedWins
    /\ SearchingWhileInFlight

\* both hold of a lookup that no other lookup overlaps
LookupAloneSettles ==
    Len(lookups) = 1 => (LastStartedWins /\ SearchingWhileInFlight)

(***************************************************************************)
(* C25: processDocuments changes all of its outputs or none.               *)
(***************************************************************************)
ExtractionFailed ==
    /\ extraction # null
    /\ extraction.billing = "rejected" \/ extraction.payroll = "rejected"

DocsFinished == docsOutcome \in {"missing", "success", "failure"}

\* C25: when processDocuments finishes after the billing or the payroll
\* extraction failed, companyInfo, billingRecords and payrollRecords are those
\* of before the call and an error message is set; on every path isProcessing
\* is false once the operation has finished
C25_AllOrNothing ==
    [][/\ (docsOutcome = "running" /\ docsOutcome' # "running")
            => (ExtractionFailed'
                   => /\ companyInfo' = docsBefore'.companyInfo
                      /\ billingRecords' = docsBefore'.billingRecords
                      /\ payrollRecords' = docsBefore'.payrollRecords
                      /\ error' # null)
       /\ DocsFinished' => ~isProcessing']_vars

\* a second run failed on a document that would have replaced what the first
\* run extracted
C25_Witness ==
    /\ docsOutcome = "failure"
    /\ ExtractionFailed
    /\ error # null
    /\ ~isProcessing
    /\ companyInfo.name = "Alfa Ltda"
    /\ extraction.billingFile.name = "faturamentoIlegivel.pdf"


==============================================================================
